---- MODULE Spec2Model ----
(***************************************************************************)
(* Model of the autocache gateway's cache-annotation planner               *)
(* (CacheInjector), the request model it mutates (types.AnthropicRequest), *)
(* the token estimators it consults, the pricing calculator and the part   *)
(* of the HTTP handler that parses a request, plans it and forwards it     *)
(* upstream.                                                               *)
(*                                                                         *)
(* A Go string that is a text of a request is represented by the           *)
(* attributes of it that the code reads: its rune count, its byte length,  *)
(* whether isCodeLike / isJSONLike hold for it, whether it contains one of *)
(* the stable phrase markers, the number of ids the embedded BPE encoder   *)
(* returns for it and the count the Anthropic tokenizer returns for it.    *)
(* A model identifier is the sequence of its characters.  A float64 is     *)
(* its sign, exponent and significand, and the arithmetic on it is IEEE    *)
(* 754.                                                                    *)
(***************************************************************************)
EXTENDS Integers, Sequences, FiniteSets, TLC

(***************************************************************************)
(* Bounds of the model.                                                    *)
(***************************************************************************)
MaxMessages == 2
MaxTotalBlocks == 3
MaxSystemBlocks == 2
MaxTools == 2

(***************************************************************************)
(* Strings.                                                                *)
(***************************************************************************)
Text(r, b, c, j, m, n, k) ==
    [runes |-> r, bytes |-> b, code |-> c, json |-> j, marker |-> m, ids |-> n,
     tokens |-> k]

EmptyText == Text(0, 0, FALSE, FALSE, FALSE, 0, 0)
\* "You are helpful." : 16 runes
SmallText == Text(16, 16, FALSE, FALSE, TRUE, 5, 4)
\* plain prose between the aggressive (819) and the moderate (1024) threshold
MidText == Text(1300, 1300, FALSE, FALSE, FALSE, 900, 880)
\* prose with a phrase marker, above the moderate threshold
LargeText == Text(1700, 1700, FALSE, FALSE, TRUE, 1100, 1090)
\* a long document, above every threshold of both model families
HugeText == Text(6600, 6700, FALSE, FALSE, FALSE, 4200, 4300)
\* 900 three-byte runes behind a phrase marker, which the encoders split
\* into more tokens than there are runes
WideText == Text(900, 2700, FALSE, FALSE, TRUE, 1300, 1250)
\* prose that the heuristic estimator puts above the aggressive threshold
\* and the encoders below it
BriefText == Text(1260, 1260, FALSE, FALSE, FALSE, 800, 790)
\* a document for which the embedded encoder returns no ids
UnencodableText == Text(1800, 1800, FALSE, FALSE, FALSE, 0, 1150)
\* a tool's name
NameText == Text(9, 9, FALSE, FALSE, FALSE, 2, 3)
\* the schema {"properties":{"query":{"type":"string"}},"type":"object"} as
\* fmt.Sprintf("%v", schema) renders it,
\* map[properties:map[query:map[type:string]] type:object], and as
\* json.Marshal does
SchemaV == Text(55, 55, TRUE, FALSE, FALSE, 18, 19)
SchemaJSON == Text(58, 58, TRUE, TRUE, FALSE, 16, 17)

(***************************************************************************)
(* types.CacheControl; a nil pointer is NoCacheControl.                    *)
(***************************************************************************)
NoCacheControl == [Type |-> "", TTL |-> ""]
CacheControl(ttl) == [Type |-> "ephemeral", TTL |-> ttl]

(***************************************************************************)
(* types.ContentBlock, types.ToolDefinition, types.Message.                *)
(***************************************************************************)
ContentBlock(type, text, cc) == [Type |-> type, Text |-> text, CacheControl |-> cc]

NilSchema == [nil |-> TRUE, v |-> EmptyText, js |-> EmptyText]
Schema == [nil |-> FALSE, v |-> SchemaV, js |-> SchemaJSON]

ToolDefinition(name, desc, schema, cc) ==
    [Name |-> name, Description |-> desc, InputSchema |-> schema, CacheControl |-> cc]

Message(role, content) == [Role |-> role, Content |-> content]

(***************************************************************************)
(* Helpers on sequences and rationals.                                     *)
(***************************************************************************)
RECURSIVE SumSeq(_)
SumSeq(s) == IF s = <<>> THEN 0 ELSE Head(s) + SumSeq(Tail(s))

RECURSIVE Flatten(_)
Flatten(ss) == IF ss = <<>> THEN <<>> ELSE Head(ss) \o Flatten(Tail(ss))

Min(a, b) == IF a < b THEN a ELSE b
Max(a, b) == IF a < b THEN b ELSE a

RECURSIVE MaxSeq(_)
MaxSeq(s) == IF s = <<>> THEN 0 ELSE Max(Head(s), MaxSeq(Tail(s)))

(***************************************************************************)
(* float64.  A value is [s, e, m]: the sign s (0 or 1), the exponent e and *)
(* the significand m, an integer of 53 bits held as four limbs of 14 bits, *)
(* least significant first; the value is (-1)^s * m * 2^e, and m is zero   *)
(* for the value zero.  Every operation returns the IEEE 754 result,       *)
(* rounded to nearest, ties to even, each operation rounded on its own as  *)
(* the amd64 build does.  The values of the program stay far from the      *)
(* subnormal range, from infinity and from NaN, which are left out.        *)
(* Intermediate integers are eight limbs wide.                             *)
(***************************************************************************)
Limb == 16384

\* limb i (from 0) of an integer, 0 beyond its ends
LimbAt(w, i) == IF i >= 0 /\ i < Len(w) THEN w[i + 1] ELSE 0

\* the number of bits of n, for 0 <= n < 2^14
BitsOf(n) ==
    IF n >= 128
    THEN (IF n >= 2048
          THEN (IF n >= 8192 THEN 14 ELSE IF n >= 4096 THEN 13 ELSE 12)
          ELSE (IF n >= 512 THEN (IF n >= 1024 THEN 11 ELSE 10)
                ELSE IF n >= 256 THEN 9 ELSE 8))
    ELSE (IF n >= 8
          THEN (IF n >= 32 THEN (IF n >= 64 THEN 7 ELSE 6)
                ELSE IF n >= 16 THEN 5 ELSE 4)
          ELSE (IF n >= 2 THEN (IF n >= 4 THEN 3 ELSE 2)
                ELSE n))

\* the number of bits of the lowest i limbs of an integer
RECURSIVE BitLengthBelow(_, _)
BitLengthBelow(w, i) ==
    IF i = 0 THEN 0
    ELSE IF w[i] # 0 THEN 14 * (i - 1) + BitsOf(w[i])
    ELSE BitLengthBelow(w, i - 1)

\* the number of bits of an integer
BitLength(w) == BitLengthBelow(w, Len(w))

\* the lowest k limbs of w * 2^n (n >= 0)
RECURSIVE ShiftLeft(_, _, _)
ShiftLeft(w, n, k) ==
    IF k = 0 THEN <<>>
    ELSE Append(ShiftLeft(w, n, k - 1),
                (LimbAt(w, k - 1 - (n \div 14)) % (2^(14 - (n % 14)))) * (2^(n % 14))
                + (LimbAt(w, k - 2 - (n \div 14)) \div (2^(14 - (n % 14)))))

\* the lowest k limbs of floor(w / 2^n) (n >= 0)
RECURSIVE ShiftRight(_, _, _)
ShiftRight(w, n, k) ==
    IF k = 0 THEN <<>>
    ELSE Append(ShiftRight(w, n, k - 1),
                (LimbAt(w, k - 1 + (n \div 14)) \div (2^(n % 14)))
                + (LimbAt(w, k + (n \div 14)) % (2^(n % 14))) * (2^(14 - (n % 14))))

\* whether w mod 2^n is not zero
LowBitsSet(w, n) ==
    \/ LimbAt(w, n \div 14) % (2^(n % 14)) # 0
    \/ \E i \in 1..Len(w) : i <= n \div 14 /\ w[i] # 0

\* bit n (from 0) of w
BitAt(w, n) == (LimbAt(w, n \div 14) \div (2^(n % 14))) % 2

\* the limbs of the integer whose limb sums, with the carry into the
\* lowest, are c
RECURSIVE Carry(_, _)
Carry(c, carry) ==
    IF c = <<>> THEN <<>>
    ELSE <<(c[1] + carry) % Limb>> \o Carry(Tail(c), (c[1] + carry) \div Limb)

\* u + sign * v for integers of eight limbs, sign 1 or -1 and u >= v
AddWide(u, v, sign) ==
    Carry(<< u[1] + sign * v[1], u[2] + sign * v[2], u[3] + sign * v[3],
             u[4] + sign * v[4], u[5] + sign * v[5], u[6] + sign * v[6],
             u[7] + sign * v[7], u[8] + sign * v[8] >>, 0)

\* whether the lowest i limbs of u are below those of v
RECURSIVE LessBelow(_, _, _)
LessBelow(u, v, i) ==
    IF i = 0 THEN FALSE
    ELSE IF u[i] # v[i] THEN u[i] < v[i]
    ELSE LessBelow(u, v, i - 1)

\* u < v for integers of as many limbs
LessWide(u, v) == LessBelow(u, v, Len(u))

\* u * v for significands u and v
MulWide(u, v) ==
    Carry(<< u[1] * v[1],
             u[1] * v[2] + u[2] * v[1],
             u[1] * v[3] + u[2] * v[2] + u[3] * v[1],
             u[1] * v[4] + u[2] * v[3] + u[3] * v[2] + u[4] * v[1],
             u[2] * v[4] + u[3] * v[3] + u[4] * v[2],
             u[3] * v[4] + u[4] * v[3],
             u[4] * v[4],
             0 >>, 0)

Wide(m) == << m[1], m[2], m[3], m[4], 0, 0, 0, 0 >>

Float(s, e, m) == [s |-> s, e |-> e, m |-> m]

FloatZero == Float(0, 0, <<0, 0, 0, 0>>)

IsZero(x) == x.m[4] = 0

\* m + 1 for a significand m
Increment(m) ==
    IF m[1] < Limb - 1 THEN << m[1] + 1, m[2], m[3], m[4] >>
    ELSE IF m[2] < Limb - 1 THEN << 0, m[2] + 1, m[3], m[4] >>
    ELSE IF m[3] < Limb - 1 THEN << 0, 0, m[3] + 1, m[4] >>
    ELSE << 0, 0, 0, m[4] + 1 >>

\* the float64 of sign s, exponent e and the significand r, which is of 53
\* bits or is 2^53
Renormalize(s, e, r) ==
    IF r[4] = 2048 THEN Float(s, e + 1, <<0, 0, 0, 1024>>) ELSE Float(s, e, r)

\* the float64 nearest to (-1)^s * (q + f) * 2^e for a q of 53 bits and
\* 0 <= f < 1, where f >= 1/2 when half and f is neither 0 nor 1/2 when rest
RoundUp(s, e, q, half, rest) ==
    Renormalize(s, e, IF half /\ (rest \/ q[1] % 2 = 1) THEN Increment(q) ELSE q)

\* Round for a w of n bits
RoundBits(s, w, e, sticky, n) ==
    IF n = 0 THEN Float(s, 0, <<0, 0, 0, 0>>)
    ELSE IF n <= 53 THEN Float(s, e - (53 - n), ShiftLeft(w, 53 - n, 4))
    ELSE RoundUp(s, e + (n - 53), ShiftRight(w, n - 53, 4),
                 BitAt(w, n - 54) = 1, sticky \/ LowBitsSet(w, n - 54))

\* the float64 nearest to (-1)^s * (w + f) * 2^e for an integer w of eight
\* limbs, where 0 < f < 1 when sticky and f = 0 otherwise; with sticky, w
\* has 54 bits or more
Round(s, w, e, sticky) == RoundBits(s, w, e, sticky, BitLength(w))

\* the float64 of sign s and magnitude a for an int a >= 0
FromMagnitude(s, a) ==
    Round(s, << a % Limb, (a \div Limb) % Limb, a \div (Limb * Limb), 0, 0, 0, 0, 0 >>,
          0, FALSE)

\* float64(n) for an int n
FromInt(n) == FromMagnitude(IF n < 0 THEN 1 ELSE 0, IF n < 0 THEN -n ELSE n)

\* -x
Neg(x) == [x EXCEPT !.s = 1 - @]

\* x * y
Mul(x, y) ==
    IF IsZero(x) \/ IsZero(y) THEN Float((x.s + y.s) % 2, 0, <<0, 0, 0, 0>>)
    ELSE Round((x.s + y.s) % 2, MulWide(x.m, y.m), x.e + y.e, FALSE)

\* |x| < |y| for non-zero x and y
LessMagnitude(x, y) == x.e < y.e \/ (x.e = y.e /\ LessWide(x.m, y.m))

\* x + y for non-zero x and y with |x| >= |y|; far when y is below the
\* last bit that can change the rounding of x, where it counts as a
\* fraction of the unit
AddAligned(x, y, far) ==
    IF ~far /\ x.s # y.s /\ x.e = y.e /\ x.m = y.m THEN FloatZero
    ELSE Round(x.s,
               AddWide(ShiftLeft(x.m, IF far THEN 2 ELSE x.e - y.e, 8),
                       IF ~far THEN Wide(y.m)
                       ELSE IF x.s = y.s THEN <<0, 0, 0, 0, 0, 0, 0, 0>>
                       ELSE <<1, 0, 0, 0, 0, 0, 0, 0>>,
                       IF x.s = y.s THEN 1 ELSE -1),
               IF far THEN x.e - 2 ELSE y.e, far)

AddOrdered(x, y) == AddAligned(x, y, x.e - y.e > 55)

\* x + y
Add(x, y) ==
    IF IsZero(y) THEN (IF IsZero(x) /\ x.s # y.s THEN FloatZero ELSE x)
    ELSE IF IsZero(x) THEN y
    ELSE AddOrdered(IF LessMagnitude(x, y) THEN y ELSE x,
                    IF LessMagnitude(x, y) THEN x ELSE y)

\* x - y
Sub(x, y) == Add(x, Neg(y))

\* The long division of an integer by an int d with 0 < d < 2^14, limb by
\* limb from the top: the quotient of the limbs from i down, given the
\* remainder rem of those above, with the final remainder in front.
RECURSIVE DivideLimbs(_, _, _, _)
DivideLimbs(w, d, i, rem) ==
    IF i = 0 THEN <<rem>>
    ELSE Append(DivideLimbs(w, d, i - 1, (rem * Limb + w[i]) % d),
                (rem * Limb + w[i]) \div d)

\* Round for the remainder and quotient of DivideLimbs
RoundQuotient(s, e, rq) == Round(s, Tail(rq), e, rq[1] # 0)

\* One digit of a long division in base 2^14 (Knuth's algorithm D): the
\* digit floor(r * 2^14 / v) and the remainder, for a divisor v of four
\* limbs whose top limb is 2^13 or more and r < v.  The digit is estimated
\* from the two top limbs of r as g, lowered at most twice while it is over
\* on the three top limbs, and lowered once more when r * 2^14 - g * v, d
\* below, is negative.
DigitOver(r, v, g) ==
    /\ r[4] * Limb + r[3] - g * v[4] < Limb
    /\ g * v[3] > (r[4] * Limb + r[3] - g * v[4]) * Limb + r[2]

DivideAddBack(v, g, d) ==
    IF d[6] = 0
    THEN [q |-> g, r |-> << d[1], d[2], d[3], d[4] >>]
    ELSE [q |-> g - 1,
          r |-> Carry(<< d[1] + v[1], d[2] + v[2], d[3] + v[3], d[4] + v[4] >>, 0)]

DivideSubtract(r, v, g) ==
    DivideAddBack(v, g, Carry(<< 0 - g * v[1], r[1] - g * v[2], r[2] - g * v[3],
                                 r[3] - g * v[4], r[4], 0 >>, 0))

DivideLower(r, v, g) ==
    DivideSubtract(r, v, IF DigitOver(r, v, g) THEN g - 1 ELSE g)

DivideEstimate(r, v, g) ==
    IF DigitOver(r, v, g) THEN DivideLower(r, v, g - 1) ELSE DivideSubtract(r, v, g)

DivideStep(r, v) ==
    DivideEstimate(r, v, IF (r[4] * Limb + r[3]) \div v[4] >= Limb THEN Limb - 1
                         ELSE (r[4] * Limb + r[3]) \div v[4])

\* The k digits that follow a remainder r in the division by v, least
\* significant first, with the final remainder in front.
RECURSIVE DivideDigits(_, _, _)
DivideNext(step, v, k) == Append(DivideDigits(step.r, v, k - 1), step.q)

DivideDigits(r, v, k) ==
    IF k = 0 THEN <<r>> ELSE DivideNext(DivideStep(r, v), v, k)

\* Round for the first digit q5 and the result of DivideDigits
RoundDigits(s, e, q5, rq) ==
    Round(s, << rq[2], rq[3], rq[4], rq[5], q5, 0, 0, 0 >>, e, rq[1] # <<0, 0, 0, 0>>)

\* x / y for non-zero x and y, from their significands u and v with the
\* top bit in the top limb; q5 is the first digit of the quotient
DivideFrom(s, e, u, v, q5) ==
    RoundDigits(s, e, q5,
                DivideDigits(IF q5 = 0 THEN u
                             ELSE Carry(<< u[1] - v[1], u[2] - v[2], u[3] - v[3],
                                           u[4] - v[4] >>, 0),
                             v, 4))

DivideAligned(s, e, u, v) == DivideFrom(s, e, u, v, IF LessWide(u, v) THEN 0 ELSE 1)

\* x / y for non-zero y
Div(x, y) ==
    IF IsZero(x) THEN Float((x.s + y.s) % 2, 0, <<0, 0, 0, 0>>)
    ELSE DivideAligned((x.s + y.s) % 2, x.e - y.e - 56,
                       ShiftLeft(x.m, 3, 4), ShiftLeft(y.m, 3, 4))

\* x < y
Less(x, y) ==
    IF IsZero(x) /\ IsZero(y) THEN FALSE
    ELSE IF IsZero(x) THEN y.s = 0
    ELSE IF IsZero(y) THEN x.s = 1
    ELSE IF x.s # y.s THEN x.s = 1
    ELSE IF x.s = 0 THEN LessMagnitude(x, y)
    ELSE LessMagnitude(y, x)

\* the int of three limbs
LimbsToInt(q) == q[1] + q[2] * Limb + q[3] * Limb * Limb

\* the integer part of |x| for |x| < 2^31, and whether x has a fraction
IntegerPart(x) ==
    IF IsZero(x) THEN 0
    ELSE IF x.e < -53 THEN 0
    ELSE LimbsToInt(ShiftRight(x.m, -x.e, 3))

HasFraction(x) == ~IsZero(x) /\ (x.e < -53 \/ LowBitsSet(x.m, -x.e))

\* int(x): truncation towards zero
Trunc(x) == IF x.s = 1 THEN -IntegerPart(x) ELSE IntegerPart(x)

\* int(math.Ceil(x))
Ceil(x) ==
    IF x.s = 1 THEN -IntegerPart(x)
    ELSE IF HasFraction(x) THEN IntegerPart(x) + 1
    ELSE IntegerPart(x)

\* the float64 a decimal literal denotes: the one nearest to n / d, for
\* 0 < n < 2^14 and 0 < d < 2^14, from the division of n * 2^98 by d
Decimal(n, d) ==
    RoundQuotient(0, -98, DivideLimbs(<<0, 0, 0, 0, 0, 0, 0, n>>, d, 8, 0))

(***************************************************************************)
(* types.GetStrategyConfig.  A strategy that is not a key of the map       *)
(* yields the zero StrategyConfig.                                         *)
(***************************************************************************)
Strategies == {"conservative", "moderate", "aggressive"}

\* the MinTokensMultiplier literals 2.0, 1.0 and 0.8
MultiplierTwo == Decimal(20, 10)
MultiplierOne == Decimal(10, 10)
MultiplierEightTenths == Decimal(8, 10)

\* the multipliers of conservative and aggressive exchanged
GetStrategyConfig_MultipliersExchanged(strat) ==
    CASE strat = "conservative" ->
           [MaxBreakpoints |-> 2, MinTokensMultiplier |-> MultiplierEightTenths,
            SystemTTL |-> "1h", ToolsTTL |-> "1h", ContentTTL |-> "5m"]
      [] strat = "moderate" ->
           [MaxBreakpoints |-> 3, MinTokensMultiplier |-> MultiplierOne,
            SystemTTL |-> "1h", ToolsTTL |-> "1h", ContentTTL |-> "5m"]
      [] strat = "aggressive" ->
           [MaxBreakpoints |-> 4, MinTokensMultiplier |-> MultiplierTwo,
            SystemTTL |-> "1h", ToolsTTL |-> "1h", ContentTTL |-> "5m"]
      [] OTHER ->
           [MaxBreakpoints |-> 0, MinTokensMultiplier |-> FloatZero,
            SystemTTL |-> "", ToolsTTL |-> "", ContentTTL |-> ""]

GetStrategyConfig(strat) ==
    CASE strat = "conservative" ->
           [MaxBreakpoints |-> 2, MinTokensMultiplier |-> MultiplierTwo,
            SystemTTL |-> "1h", ToolsTTL |-> "1h", ContentTTL |-> "5m"]
      [] strat = "moderate" ->
           [MaxBreakpoints |-> 3, MinTokensMultiplier |-> MultiplierOne,
            SystemTTL |-> "1h", ToolsTTL |-> "1h", ContentTTL |-> "5m"]
      [] strat = "aggressive" ->
           [MaxBreakpoints |-> 4, MinTokensMultiplier |-> MultiplierEightTenths,
            SystemTTL |-> "1h", ToolsTTL |-> "1h", ContentTTL |-> "5m"]
      [] OTHER ->
           [MaxBreakpoints |-> 0, MinTokensMultiplier |-> FloatZero,
            SystemTTL |-> "", ToolsTTL |-> "", ContentTTL |-> ""]

(***************************************************************************)
(* Model identifiers, and strings.Contains and strings.Split on them.      *)
(***************************************************************************)
\* "claude-sonnet-4-5-20250929"
claude_sonnet_4_5_20250929 ==
    << "c", "l", "a", "u", "d", "e", "-", "s", "o", "n", "n", "e", "t", "-",
       "4", "-", "5", "-", "2", "0", "2", "5", "0", "9", "2", "9" >>

\* "claude-sonnet-4-20250514"
claude_sonnet_4_20250514 ==
    << "c", "l", "a", "u", "d", "e", "-", "s", "o", "n", "n", "e", "t", "-",
       "4", "-", "2", "0", "2", "5", "0", "5", "1", "4" >>

\* "claude-3-7-sonnet-20250219"
claude_3_7_sonnet_20250219 ==
    << "c", "l", "a", "u", "d", "e", "-", "3", "-", "7", "-", "s", "o", "n",
       "n", "e", "t", "-", "2", "0", "2", "5", "0", "2", "1", "9" >>

\* claude_3_5_sonnet_20241022
claude_3_5_sonnet_20241022 ==
    << "c", "l", "a", "u", "d", "e", "-", "3", "-", "5", "-", "s", "o", "n",
       "n", "e", "t", "-", "2", "0", "2", "4", "1", "0", "2", "2" >>

\* "claude-3-5-sonnet-20240620"
claude_3_5_sonnet_20240620 ==
    << "c", "l", "a", "u", "d", "e", "-", "3", "-", "5", "-", "s", "o", "n",
       "n", "e", "t", "-", "2", "0", "2", "4", "0", "6", "2", "0" >>

\* "claude-opus-4-1-20250805"
claude_opus_4_1_20250805 ==
    << "c", "l", "a", "u", "d", "e", "-", "o", "p", "u", "s", "-", "4", "-",
       "1", "-", "2", "0", "2", "5", "0", "8", "0", "5" >>

\* "claude-opus-4-20250514"
claude_opus_4_20250514 ==
    << "c", "l", "a", "u", "d", "e", "-", "o", "p", "u", "s", "-", "4", "-",
       "2", "0", "2", "5", "0", "5", "1", "4" >>

\* "claude-3-5-haiku-20241022"
claude_3_5_haiku_20241022 ==
    << "c", "l", "a", "u", "d", "e", "-", "3", "-", "5", "-", "h", "a", "i",
       "k", "u", "-", "2", "0", "2", "4", "1", "0", "2", "2" >>

\* "claude-3-opus-20240229"
claude_3_opus_20240229 ==
    << "c", "l", "a", "u", "d", "e", "-", "3", "-", "o", "p", "u", "s", "-",
       "2", "0", "2", "4", "0", "2", "2", "9" >>

\* "claude-3-sonnet-20240229"
claude_3_sonnet_20240229 ==
    << "c", "l", "a", "u", "d", "e", "-", "3", "-", "s", "o", "n", "n", "e",
       "t", "-", "2", "0", "2", "4", "0", "2", "2", "9" >>

\* "claude-3-haiku-20240307"
claude_3_haiku_20240307 ==
    << "c", "l", "a", "u", "d", "e", "-", "3", "-", "h", "a", "i", "k", "u",
       "-", "2", "0", "2", "4", "0", "3", "0", "7" >>

\* "claude-haiku-4-5"
claude_haiku_4_5 ==
    << "c", "l", "a", "u", "d", "e", "-", "h", "a", "i", "k", "u", "-", "4",
       "-", "5" >>

\* "claude-3-opus-latest"
claude_3_opus_latest ==
    << "c", "l", "a", "u", "d", "e", "-", "3", "-", "o", "p", "u", "s", "-",
       "l", "a", "t", "e", "s", "t" >>

\* "some-haiku-variant"
some_haiku_variant ==
    << "s", "o", "m", "e", "-", "h", "a", "i", "k", "u", "-", "v", "a", "r",
       "i", "a", "n", "t" >>

\* "haiku"
haiku == << "h", "a", "i", "k", "u" >>

\* strings.Contains(s, substr)
Contains(s, substr) ==
    \E i \in 0..(Len(s) - Len(substr)) : SubSeq(s, i + 1, i + Len(substr)) = substr

\* strings.Split(s, sep) for a separator sep of one character
RECURSIVE Split(_, _)
Split(s, sep) ==
    IF \A i \in 1..Len(s) : s[i] # sep THEN << s >>
    ELSE LET i == CHOOSE k \in 1..Len(s) : s[k] = sep /\ \A j \in 1..(k - 1) : s[j] # sep
         IN  << SubSeq(s, 1, i - 1) >> \o Split(SubSeq(s, i + 1, Len(s)), sep)

\* model == haikuModel for one of the two haikuModels the estimators list
ListedHaiku(model) ==
    model \in {claude_3_haiku_20240307, claude_3_5_haiku_20241022}

\* strings.Contains(model, "haiku")
ContainsHaiku(model) == Contains(model, haiku)

(***************************************************************************)
(* pricing.PricingCalculator.  Prices are float64 dollars per million      *)
(* tokens and costs are float64 dollars.  ModelName, which repeats the key *)
(* and which nothing reads, is left out of a ModelPricing.                 *)
(***************************************************************************)
ModelPricing(input, output, write5m, write1h, read) ==
    [InputTokens |-> input, OutputTokens |-> output, CacheWrite5m |-> write5m,
     CacheWrite1h |-> write1h, CacheRead |-> read]

\* 3.00, 15.00, 3.75, 6.00, 0.30
SonnetPricing ==
    ModelPricing(Decimal(300, 100), Decimal(1500, 100), Decimal(375, 100),
                 Decimal(600, 100), Decimal(30, 100))
\* 15.00, 75.00, 18.75, 30.00, 1.50
OpusPricing ==
    ModelPricing(Decimal(1500, 100), Decimal(7500, 100), Decimal(1875, 100),
                 Decimal(3000, 100), Decimal(150, 100))
\* 0.80, 4.00, 1.00, 1.60, 0.08
Haiku35Pricing ==
    ModelPricing(Decimal(80, 100), Decimal(400, 100), Decimal(100, 100),
                 Decimal(160, 100), Decimal(8, 100))
\* 0.25, 1.25, 0.3125, 0.50, 0.025
Haiku3Pricing ==
    ModelPricing(Decimal(25, 100), Decimal(125, 100), Decimal(3125, 10000),
                 Decimal(50, 100), Decimal(25, 1000))

\* NewPricingCalculator: the models map
NewPricingCalculator ==
    (claude_sonnet_4_5_20250929 :> SonnetPricing)
    @@ (claude_sonnet_4_20250514 :> SonnetPricing)
    @@ (claude_3_7_sonnet_20250219 :> SonnetPricing)
    @@ (claude_3_5_sonnet_20241022 :> SonnetPricing)
    @@ (claude_3_5_sonnet_20240620 :> SonnetPricing)
    @@ (claude_opus_4_1_20250805 :> OpusPricing)
    @@ (claude_opus_4_20250514 :> OpusPricing)
    @@ (claude_3_5_haiku_20241022 :> Haiku35Pricing)
    @@ (claude_3_opus_20240229 :> OpusPricing)
    @@ (claude_3_sonnet_20240229 :> SonnetPricing)
    @@ (claude_3_haiku_20240307 :> Haiku3Pricing)

\* GetModelPricing: every result one call can return.  The fuzzy match
\* ranges over the map and returns the first entry that matches; the order
\* of a range over a Go map is not specified and differs from call to call,
\* so every matching entry is a possible result.  models is the map of the
\* calculator.
PricingCalculator_GetModelPricing(models, model) ==
    IF model \in DOMAIN models
    THEN { [pricing |-> models[model], err |-> FALSE] }
    ELSE IF \E modelName \in DOMAIN models :
                /\ Contains(model, Split(modelName, "-")[1])
                /\ Contains(model, Split(modelName, "-")[2])
    THEN { [pricing |-> models[modelName], err |-> FALSE] :
             modelName \in { k \in DOMAIN models :
                               /\ Contains(model, Split(k, "-")[1])
                               /\ Contains(model, Split(k, "-")[2]) } }
    ELSE { [pricing |-> models[claude_3_5_sonnet_20241022], err |-> TRUE] }

GetModelPricing(model) == PricingCalculator_GetModelPricing(NewPricingCalculator, model)

\* the constant 1_000_000 as a float64
Million == FromInt(1000000)

\* The cost operations take the result of their GetModelPricing call as
\* the argument lookup and return [cost, err].  TokenCost is
\* (float64(tokens) / 1_000_000) * price.
TokenCost(tokens, price) == Mul(Div(FromInt(tokens), Million), price)

CalculateBaseCost(lookup, inputTokens, outputTokens) ==
    IF lookup.err THEN [cost |-> FloatZero, err |-> TRUE]
    ELSE [cost |-> Add(TokenCost(inputTokens, lookup.pricing.InputTokens),
                       TokenCost(outputTokens, lookup.pricing.OutputTokens)),
          err |-> FALSE]

CalculateCacheWriteCost(lookup, tokens, ttl) ==
    IF lookup.err THEN [cost |-> FloatZero, err |-> TRUE]
    ELSE [cost |-> TokenCost(tokens, CASE ttl = "5m" -> lookup.pricing.CacheWrite5m
                                       [] ttl = "1h" -> lookup.pricing.CacheWrite1h
                                       [] OTHER -> lookup.pricing.CacheWrite5m),
          err |-> FALSE]

CalculateCacheReadCost(lookup, tokens) ==
    IF lookup.err THEN [cost |-> FloatZero, err |-> TRUE]
    ELSE [cost |-> TokenCost(tokens, lookup.pricing.CacheRead), err |-> FALSE]

\* EstimateBreakpointROI; lookups are the results of the GetModelPricing
\* calls of CalculateBaseCost, CalculateCacheWriteCost and
\* CalculateCacheReadCost, in this order.  An error returns at once, before
\* the calls that follow it.  BreakpointROIOf is the result for the three
\* costs, and BreakEvenOf that for the write cost, savingsPerRead and
\* extraCost.
BreakEvenOf(writeCost, savingsPerRead, extraCost) ==
    [writeCost |-> writeCost,
     savingsPerRead |-> savingsPerRead,
     breakEven |-> IF Less(FloatZero, savingsPerRead)
                   THEN 1 + Ceil(Div(extraCost, savingsPerRead))
                   ELSE -1,
     err |-> FALSE]

BreakpointROIOf(base, write, read) ==
    IF base.err \/ write.err \/ read.err
    THEN [writeCost |-> FloatZero, savingsPerRead |-> FloatZero,
          breakEven |-> 0, err |-> TRUE]
    ELSE BreakEvenOf(write.cost, Sub(base.cost, read.cost), Sub(write.cost, base.cost))

EstimateBreakpointROI(lookups, tokens, ttl) ==
    BreakpointROIOf(CalculateBaseCost(lookups[1], tokens, 0),
                    CalculateCacheWriteCost(lookups[2], tokens, ttl),
                    CalculateCacheReadCost(lookups[3], tokens))

\* calculateSavingsAtN
calculateSavingsAtN(baseCost, firstRequestCost, subsequentRequestCost, n) ==
    IF n <= 0 THEN FloatZero
    ELSE Sub(Mul(baseCost, FromInt(n)),
             Add(firstRequestCost, Mul(subsequentRequestCost, FromInt(n - 1))))

\* types.ROIMetrics{}
ZeroROIMetrics ==
    [BaseInputCost |-> FloatZero, CacheWriteCost |-> FloatZero,
     CacheReadCost |-> FloatZero, FirstRequestCost |-> FloatZero,
     SubsequentSavings |-> FloatZero, BreakEvenRequests |-> 0,
     SavingsAt10Requests |-> FloatZero, SavingsAt100Requests |-> FloatZero,
     PercentSavings |-> FloatZero]

\* totalCacheWriteCost of CalculateROI after the breakpoints from i on,
\* given the sum of those before
RECURSIVE TotalCacheWriteCost(_, _, _, _)
TotalCacheWriteCost(writes, breakpoints, i, sum) ==
    IF i > Len(breakpoints) THEN sum
    ELSE TotalCacheWriteCost(
             writes, breakpoints, i + 1,
             Add(sum, CalculateCacheWriteCost(writes[i], breakpoints[i].Tokens,
                                              breakpoints[i].TTL).cost))

\* CalculateROI; lookups.pricing is the result of its own GetModelPricing
\* call, lookups.writes[i] that of the CalculateCacheWriteCost call for
\* breakpoint i and lookups.read that of the CalculateCacheReadCost call.
\* ROIOfCosts, ROIOfRequests and ROIMetrics are the steps from the four
\* costs to the metrics.
ROIMetrics(baseCost, totalCacheWriteCost, cacheReadCost, firstRequestCost, subsequentRequestCost, subsequentSavings) ==
    [BaseInputCost |-> baseCost,
     CacheWriteCost |-> totalCacheWriteCost,
     CacheReadCost |-> cacheReadCost,
     FirstRequestCost |-> firstRequestCost,
     SubsequentSavings |-> subsequentSavings,
     BreakEvenRequests |->
         IF Less(FloatZero, subsequentSavings)
         THEN Trunc(Div(Sub(firstRequestCost, baseCost), subsequentSavings)) + 1
         ELSE -1,
     SavingsAt10Requests |->
         calculateSavingsAtN(baseCost, firstRequestCost, subsequentRequestCost, 10),
     SavingsAt100Requests |->
         calculateSavingsAtN(baseCost, firstRequestCost, subsequentRequestCost, 100),
     PercentSavings |->
         IF Less(FloatZero, baseCost)
         THEN Mul(Div(subsequentSavings, baseCost), FromInt(100))
         ELSE FloatZero]

ROIOfRequests(baseCost, totalCacheWriteCost, cacheReadCost, firstRequestCost, subsequentRequestCost) ==
    ROIMetrics(baseCost, totalCacheWriteCost, cacheReadCost, firstRequestCost,
               subsequentRequestCost, Sub(baseCost, subsequentRequestCost))

ROIOfCosts(baseCost, totalCacheWriteCost, cacheReadCost, nonCachedCost) ==
    ROIOfRequests(baseCost, totalCacheWriteCost, cacheReadCost,
                  Add(totalCacheWriteCost, nonCachedCost),
                  Add(cacheReadCost, nonCachedCost))

CalculateROI(lookups, totalTokens, cachedTokens, breakpoints) ==
    IF lookups.pricing.err THEN [roi |-> ZeroROIMetrics, err |-> TRUE]
    ELSE [roi |-> ROIOfCosts(
                    TokenCost(totalTokens, lookups.pricing.pricing.InputTokens),
                    TotalCacheWriteCost(lookups.writes, breakpoints, 1, FloatZero),
                    CalculateCacheReadCost(lookups.read, cachedTokens).cost,
                    TokenCost(totalTokens - cachedTokens,
                              lookups.pricing.pricing.InputTokens)),
          err |-> FALSE]

(***************************************************************************)
(* The heuristic estimator (AnthropicTokenizer).  CountTokens returns the  *)
(* memoized count when the text is in t.cache and computes and stores it   *)
(* otherwise; every entry of the cache is a count CountTokens computed for *)
(* its key, so a hit returns what a miss computes, and the operator below  *)
(* is that count.  The accesses to the cache and its lock are steps of the *)
(* concurrent estimators further down.                                     *)
(***************************************************************************)
\* the literals 1.5, 1.2, 1.3 and 1.1
CharsPerToken == Decimal(15, 10)
CodeFactor == Decimal(12, 10)
JSONFactor == Decimal(13, 10)
ShortTextFactor == Decimal(11, 10)

\* CountTokens: tokens is charCount / 1.5, multiplied in turn by the factor
\* of every adjustment that applies (ScaleBy), plus 2 for a text of more
\* than 1000 characters (WithOverhead); the result is int(tokens), and 1
\* when that is less (AtLeastOne).

RECURSIVE ScaleBy(_, _)
ScaleBy(tokens, factors) ==
    IF factors = <<>> THEN tokens
    ELSE ScaleBy(Mul(tokens, Head(factors)), Tail(factors))

WithOverhead(tokens, long) == IF long THEN Add(tokens, FromInt(2)) ELSE tokens

AtLeastOne(result) == IF result < 1 THEN 1 ELSE result

AnthropicTokenizer_CountTokens(text) ==
    IF text.runes = 0 THEN 0
    ELSE AtLeastOne(Trunc(WithOverhead(
             ScaleBy(Div(FromInt(text.runes), CharsPerToken),
                     (IF text.code THEN <<CodeFactor>> ELSE <<>>)
                     \o (IF text.json THEN <<JSONFactor>> ELSE <<>>)
                     \o (IF text.runes < 50 THEN <<ShortTextFactor>> ELSE <<>>)),
             text.runes > 1000)))

AnthropicTokenizer_CountContentBlockTokens(block) ==
    2 + (CASE block.Type = "text" -> AnthropicTokenizer_CountTokens(block.Text)
           [] block.Type = "image" -> 85
           [] OTHER -> 0)

AnthropicTokenizer_CountMessageTokens(message) ==
    3 + SumSeq([i \in 1..Len(message.Content) |->
                  AnthropicTokenizer_CountContentBlockTokens(message.Content[i])])

AnthropicTokenizer_CountToolTokens(tool) ==
    5 + AnthropicTokenizer_CountTokens(tool.Name)
      + AnthropicTokenizer_CountTokens(tool.Description)
      + (IF tool.InputSchema.nil THEN 0
         ELSE AnthropicTokenizer_CountTokens(tool.InputSchema.v))

AnthropicTokenizer_GetModelMinimumTokens(model) ==
    IF ContainsHaiku(model) \/ ListedHaiku(model) THEN 2048 ELSE 1024

AnthropicTokenizer_CountSystemTokens(system) ==
    IF system = EmptyText THEN 0 ELSE AnthropicTokenizer_CountTokens(system) + 2

AnthropicTokenizer_CountSystemBlocksTokens(blocks) ==
    2 + SumSeq([i \in 1..Len(blocks) |->
                  AnthropicTokenizer_CountContentBlockTokens(blocks[i])])

AnthropicTokenizer_EstimateRequestTokens_MessagesOnly(r) ==
    5 + SumSeq([i \in 1..Len(r.Messages) |->
                  AnthropicTokenizer_CountMessageTokens(r.Messages[i])])

AnthropicTokenizer_EstimateRequestTokens(r) ==
    5 + (IF r.System # EmptyText THEN AnthropicTokenizer_CountSystemTokens(r.System) ELSE 0)
      + (IF Len(r.SystemBlocks) > 0
         THEN AnthropicTokenizer_CountSystemBlocksTokens(r.SystemBlocks) ELSE 0)
      + SumSeq([i \in 1..Len(r.Tools) |-> AnthropicTokenizer_CountToolTokens(r.Tools[i])])
      + SumSeq([i \in 1..Len(r.Messages) |->
                  AnthropicTokenizer_CountMessageTokens(r.Messages[i])])

(***************************************************************************)
(* The offline estimator (OfflineTokenizer): the embedded BPE encoder,     *)
(* with the heuristic estimator as fallback when the encoding is empty.    *)
(***************************************************************************)
OfflineTokenizer_CountTokens(text) ==
    IF text.runes = 0 THEN 0
    ELSE IF text.ids = 0 THEN AnthropicTokenizer_CountTokens(text)
    ELSE text.ids

OfflineTokenizer_CountSystemTokens(system) ==
    IF system = EmptyText THEN 0 ELSE OfflineTokenizer_CountTokens(system)

OfflineTokenizer_CountSystemBlocksTokens(blocks) ==
    SumSeq([i \in 1..Len(blocks) |->
              IF blocks[i].Type = "text" /\ blocks[i].Text # EmptyText
              THEN OfflineTokenizer_CountTokens(blocks[i].Text) ELSE 0])
    + Len(blocks) * 3

OfflineTokenizer_CountContentBlockTokens(block) ==
    CASE block.Type = "text" /\ block.Text # EmptyText ->
           OfflineTokenizer_CountTokens(block.Text) + 2
      [] block.Type = "image" -> 85
      [] OTHER -> 0

OfflineTokenizer_CountMessageTokens(message) ==
    3 + SumSeq([i \in 1..Len(message.Content) |->
                  OfflineTokenizer_CountContentBlockTokens(message.Content[i])])

OfflineTokenizer_CountToolTokens(tool) ==
    (IF tool.Name # EmptyText THEN OfflineTokenizer_CountTokens(tool.Name) ELSE 0)
    + (IF tool.Description # EmptyText
       THEN OfflineTokenizer_CountTokens(tool.Description) ELSE 0)
    + (IF tool.InputSchema.nil THEN 0
       ELSE OfflineTokenizer_CountTokens(tool.InputSchema.js))
    + 20

OfflineTokenizer_EstimateRequestTokens(r) ==
    (IF r.System # EmptyText THEN OfflineTokenizer_CountSystemTokens(r.System) ELSE 0)
    + (IF Len(r.SystemBlocks) > 0
       THEN OfflineTokenizer_CountSystemBlocksTokens(r.SystemBlocks) ELSE 0)
    + SumSeq([i \in 1..Len(r.Tools) |-> OfflineTokenizer_CountToolTokens(r.Tools[i])])
    + SumSeq([i \in 1..Len(r.Messages) |->
                OfflineTokenizer_CountMessageTokens(r.Messages[i])])
    + 10

OfflineTokenizer_GetModelMinimumTokens(model) ==
    IF ListedHaiku(model) THEN 2048 ELSE 1024

(***************************************************************************)
(* The official tokenizer (AnthropicRealTokenizer): the count of a text is *)
(* the number of tokens the tokenizer library gives for it.                *)
(***************************************************************************)
AnthropicRealTokenizer_CountTokens(text) ==
    IF text.runes = 0 THEN 0 ELSE text.tokens

AnthropicRealTokenizer_CountContentBlockTokens(block) ==
    2 + (CASE block.Type = "text" -> AnthropicRealTokenizer_CountTokens(block.Text)
           [] block.Type = "image" -> 85
           [] OTHER -> 0)

AnthropicRealTokenizer_CountMessageTokens(message) ==
    3 + SumSeq([i \in 1..Len(message.Content) |->
                  AnthropicRealTokenizer_CountContentBlockTokens(message.Content[i])])

AnthropicRealTokenizer_CountToolTokens(tool) ==
    5 + AnthropicRealTokenizer_CountTokens(tool.Name)
      + AnthropicRealTokenizer_CountTokens(tool.Description)
      + (IF tool.InputSchema.nil THEN 0
         ELSE AnthropicRealTokenizer_CountTokens(tool.InputSchema.js))

AnthropicRealTokenizer_GetModelMinimumTokens(model) ==
    IF ContainsHaiku(model) \/ ListedHaiku(model) THEN 2048 ELSE 1024

AnthropicRealTokenizer_CountSystemTokens(system) ==
    IF system = EmptyText THEN 0 ELSE AnthropicRealTokenizer_CountTokens(system) + 2

AnthropicRealTokenizer_CountSystemBlocksTokens(blocks) ==
    2 + SumSeq([i \in 1..Len(blocks) |->
                  AnthropicRealTokenizer_CountContentBlockTokens(blocks[i])])

AnthropicRealTokenizer_EstimateRequestTokens(r) ==
    5 + (IF r.System # EmptyText
         THEN AnthropicRealTokenizer_CountSystemTokens(r.System) ELSE 0)
      + (IF Len(r.SystemBlocks) > 0
         THEN AnthropicRealTokenizer_CountSystemBlocksTokens(r.SystemBlocks) ELSE 0)
      + SumSeq([i \in 1..Len(r.Tools) |->
                  AnthropicRealTokenizer_CountToolTokens(r.Tools[i])])
      + SumSeq([i \in 1..Len(r.Messages) |->
                  AnthropicRealTokenizer_CountMessageTokens(r.Messages[i])])

(***************************************************************************)
(* GetModelMinimumTokens of the fourth implementation of the Tokenizer     *)
(* interface, RealTokenizer.                                               *)
(***************************************************************************)
RealTokenizer_GetModelMinimumTokens(model) ==
    IF ListedHaiku(model) THEN 2048 ELSE 1024

(***************************************************************************)
(* The tokenizer modes Config.Validate accepts, and the backend            *)
(* NewCacheInjectorWithConfig builds for a mode.  initialized tells        *)
(* whether the constructor of the backend the mode asks for succeeds.  The *)
(* result "" stands for logger.Fatal, which ends the process.              *)
(***************************************************************************)
TokenizerModes == {"anthropic", "offline", "heuristic", "hybrid"}

\* the implementations of the Tokenizer interface an injector is built with
InjectorBackends == {"anthropic", "offline", "heuristic"}

NewCacheInjectorWithConfig(mode, initialized) ==
    CASE mode = "anthropic" -> IF initialized THEN "anthropic" ELSE ""
      [] mode = "offline" -> IF initialized THEN "offline" ELSE ""
      [] mode = "heuristic" -> "heuristic"
      [] mode = "hybrid" -> IF initialized THEN "offline" ELSE "heuristic"
      [] OTHER -> "heuristic"

(***************************************************************************)
(* The tokenizer.Tokenizer interface, dispatched on the injector's         *)
(* backend.                                                                *)
(***************************************************************************)
CountTokens(tk, text) ==
    CASE tk = "offline" -> OfflineTokenizer_CountTokens(text)
      [] tk = "anthropic" -> AnthropicRealTokenizer_CountTokens(text)
      [] OTHER -> AnthropicTokenizer_CountTokens(text)

CountContentBlockTokens(tk, block) ==
    CASE tk = "offline" -> OfflineTokenizer_CountContentBlockTokens(block)
      [] tk = "anthropic" -> AnthropicRealTokenizer_CountContentBlockTokens(block)
      [] OTHER -> AnthropicTokenizer_CountContentBlockTokens(block)

CountMessageTokens(tk, message) ==
    CASE tk = "offline" -> OfflineTokenizer_CountMessageTokens(message)
      [] tk = "anthropic" -> AnthropicRealTokenizer_CountMessageTokens(message)
      [] OTHER -> AnthropicTokenizer_CountMessageTokens(message)

CountToolTokens(tk, tool) ==
    CASE tk = "offline" -> OfflineTokenizer_CountToolTokens(tool)
      [] tk = "anthropic" -> AnthropicRealTokenizer_CountToolTokens(tool)
      [] OTHER -> AnthropicTokenizer_CountToolTokens(tool)

CountSystemTokens(tk, system) ==
    CASE tk = "offline" -> OfflineTokenizer_CountSystemTokens(system)
      [] tk = "anthropic" -> AnthropicRealTokenizer_CountSystemTokens(system)
      [] OTHER -> AnthropicTokenizer_CountSystemTokens(system)

CountSystemBlocksTokens(tk, blocks) ==
    CASE tk = "offline" -> OfflineTokenizer_CountSystemBlocksTokens(blocks)
      [] tk = "anthropic" -> AnthropicRealTokenizer_CountSystemBlocksTokens(blocks)
      [] OTHER -> AnthropicTokenizer_CountSystemBlocksTokens(blocks)

EstimateRequestTokens(tk, r) ==
    CASE tk = "offline" -> OfflineTokenizer_EstimateRequestTokens(r)
      [] tk = "anthropic" -> AnthropicRealTokenizer_EstimateRequestTokens(r)
      [] OTHER -> AnthropicTokenizer_EstimateRequestTokens(r)

GetModelMinimumTokens(tk, model) ==
    CASE tk = "offline" -> OfflineTokenizer_GetModelMinimumTokens(model)
      [] tk = "anthropic" -> AnthropicRealTokenizer_GetModelMinimumTokens(model)
      [] OTHER -> AnthropicTokenizer_GetModelMinimumTokens(model)

(***************************************************************************)
(* types.AnthropicRequest.  System = EmptyText is the empty Go string and  *)
(* SystemBlocks = << >> the nil slice.                                     *)
(***************************************************************************)
\* A pointer field, of type *float64, *int or *bool: nil, or a value.
\* Temperature and TopP are in hundredths.
NilNumber == [set |-> FALSE, v |-> 0]
NilBool == [set |-> FALSE, v |-> FALSE]
Pointer(v) == [set |-> TRUE, v |-> v]

\* Temperature, TopP, TopK, Stream and StopSequences of a request
Options(temperature, topP, topK, stream, stopSequences) ==
    [Temperature |-> temperature, TopP |-> topP, TopK |-> topK,
     Stream |-> stream, StopSequences |-> stopSequences]

NoOptions == Options(NilNumber, NilNumber, NilNumber, NilBool, <<>>)

AnthropicRequest(model, maxTokens, messages, system, systemBlocks, tools, opt) ==
    [Model |-> model, MaxTokens |-> maxTokens, Messages |-> messages,
     System |-> system, SystemBlocks |-> systemBlocks, Tools |-> tools,
     Temperature |-> opt.Temperature, TopP |-> opt.TopP, TopK |-> opt.TopK,
     Stream |-> opt.Stream, StopSequences |-> opt.StopSequences]

EmptyRequest == AnthropicRequest(<<>>, 0, <<>>, EmptyText, <<>>, <<>>, NoOptions)

(***************************************************************************)
(* The JSON wire form.  "system" and a message's "content" are absent,     *)
(* null, a string or an array of blocks.  An absent "model", "role" or     *)
(* "messages" is the empty one and an absent "max_tokens" is 0, as they    *)
(* are after decoding.  malformed says that the body is not JSON at all.   *)
(***************************************************************************)
WireAbsent == [kind |-> "absent", str |-> EmptyText, blocks |-> <<>>]
WireNull == [kind |-> "null", str |-> EmptyText, blocks |-> <<>>]
WireString(t) == [kind |-> "string", str |-> t, blocks |-> <<>>]
WireArray(bs) == [kind |-> "array", str |-> EmptyText, blocks |-> bs]

WireRequest(model, maxTokens, messages, system, tools, opt) ==
    [malformed |-> FALSE,
     model |-> model, max_tokens |-> maxTokens, messages |-> messages,
     system |-> system, tools |-> tools,
     temperature |-> opt.Temperature, top_p |-> opt.TopP, top_k |-> opt.TopK,
     stream |-> opt.Stream, stop_sequences |-> opt.StopSequences]

EmptyWire == WireRequest(<<>>, 0, <<>>, WireAbsent, <<>>, NoOptions)

\* Message.UnmarshalJSON fails when "content" is absent: neither decoding of
\* the empty raw message succeeds.
Message_UnmarshalError(wm) == wm.content.kind = "absent"

\* Message.UnmarshalJSON: string content becomes one text block; null
\* decodes into a string as the empty string.
Message_UnmarshalJSON(wm) ==
    Message(wm.role,
            IF wm.content.kind \in {"string", "null"}
            THEN << ContentBlock("text", wm.content.str, NoCacheControl) >>
            ELSE wm.content.blocks)

\* json.Unmarshal(body, &req) returns an error
UnmarshalError(w) ==
    \/ w.malformed
    \/ \E i \in 1..Len(w.messages) : Message_UnmarshalError(w.messages[i])

UnmarshalJSON_ArrayToString(w) ==
    AnthropicRequest(
        w.model, w.max_tokens,
        [i \in 1..Len(w.messages) |-> Message_UnmarshalJSON(w.messages[i])],
        IF w.system.kind = "string" THEN w.system.str
        ELSE IF w.system.kind = "array" /\ Len(w.system.blocks) = 1
        THEN w.system.blocks[1].Text
        ELSE EmptyText,
        IF w.system.kind = "array" /\ Len(w.system.blocks) # 1
        THEN w.system.blocks ELSE <<>>,
        w.tools,
        Options(w.temperature, w.top_p, w.top_k, w.stream, w.stop_sequences))

\* AnthropicRequest.UnmarshalJSON: a string (or null) sets System, an array
\* sets SystemBlocks.
UnmarshalJSON(w) ==
    AnthropicRequest(
        w.model, w.max_tokens,
        [i \in 1..Len(w.messages) |-> Message_UnmarshalJSON(w.messages[i])],
        IF w.system.kind = "string" THEN w.system.str ELSE EmptyText,
        IF w.system.kind = "array" THEN w.system.blocks ELSE <<>>,
        w.tools,
        Options(w.temperature, w.top_p, w.top_k, w.stream, w.stop_sequences))

MarshalJSON_NoSystemBlocks(r) ==
    WireRequest(
        r.Model, r.MaxTokens,
        [i \in 1..Len(r.Messages) |->
            [role |-> r.Messages[i].Role, content |-> WireArray(r.Messages[i].Content)]],
        IF r.System # EmptyText THEN WireString(r.System) ELSE WireAbsent,
        r.Tools,
        Options(r.Temperature, r.TopP, r.TopK, r.Stream, r.StopSequences))

MarshalJSON_StringContent(r) ==
    WireRequest(
        r.Model, r.MaxTokens,
        [i \in 1..Len(r.Messages) |->
            [role |-> r.Messages[i].Role,
             content |-> IF Len(r.Messages[i].Content) = 1
                            /\ r.Messages[i].Content[1].Type = "text"
                            /\ r.Messages[i].Content[1].CacheControl = NoCacheControl
                         THEN WireString(r.Messages[i].Content[1].Text)
                         ELSE WireArray(r.Messages[i].Content)]],
        IF Len(r.SystemBlocks) > 0 THEN WireArray(r.SystemBlocks)
        ELSE IF r.System # EmptyText THEN WireString(r.System)
        ELSE WireAbsent,
        r.Tools,
        Options(r.Temperature, r.TopP, r.TopK, r.Stream, r.StopSequences))

\* AnthropicRequest.MarshalJSON: SystemBlocks wins over System; an empty
\* System is omitted; message content is always written as an array; a nil
\* pointer and an empty StopSequences are omitted.
MarshalJSON(r) ==
    WireRequest(
        r.Model, r.MaxTokens,
        [i \in 1..Len(r.Messages) |->
            [role |-> r.Messages[i].Role, content |-> WireArray(r.Messages[i].Content)]],
        IF Len(r.SystemBlocks) > 0 THEN WireArray(r.SystemBlocks)
        ELSE IF r.System # EmptyText THEN WireString(r.System)
        ELSE WireAbsent,
        r.Tools,
        Options(r.Temperature, r.TopP, r.TopK, r.Stream, r.StopSequences))

(***************************************************************************)
(* The planner (CacheInjector).                                            *)
(***************************************************************************)
\* CacheCandidate.Content: the pointer the candidate holds into the request.
RefSystem == [kind |-> "string", msg |-> 0, blk |-> 0]
RefSystemBlocks == [kind |-> "blocks", msg |-> 0, blk |-> 0]
RefTools == [kind |-> "tools", msg |-> 0, blk |-> 0]
RefBlock(i, j) == [kind |-> "block", msg |-> i, blk |-> j]

\* fmt.Sprintf("message_%d_block_%d", msgIdx, blockIdx), indices from 0
MessagePosition(i, j) == "message_" \o ToString(i - 1) \o "_block_" \o ToString(j - 1)

AdjustedMinimum_NoMultiplier(minimumTokens, strategyConfig) == minimumTokens

\* int(float64(minimumTokens) * strategyConfig.MinTokensMultiplier)
AdjustedMinimum(minimumTokens, strategyConfig) ==
    Trunc(Mul(FromInt(minimumTokens), strategyConfig.MinTokensMultiplier))

DetermineTTLForContent(text, strategyConfig) ==
    IF text.bytes > 1000 /\ text.marker THEN "1h" ELSE strategyConfig.ContentTTL

\* CacheCandidate, without the ROI score, which nothing reads.  lookups
\* stands where the code passes the model: it is what the three
\* GetModelPricing calls of EstimateBreakpointROI return for that model.
\* CandidateOf is the candidate for the estimate roi.
CandidateOf(position, tokens, contentType, ttl, roi, content) ==
    [Position |-> position, Tokens |-> tokens, ContentType |-> contentType,
     TTL |-> ttl, WriteCost |-> roi.writeCost, ReadSavings |-> roi.savingsPerRead,
     BreakEven |-> roi.breakEven, Content |-> content]

CreateCandidate(position, tokens, contentType, ttl, lookups, content) ==
    CandidateOf(position, tokens, contentType, ttl,
                EstimateBreakpointROI(lookups, tokens, ttl), content)

Element(present, tokens, position, contentType, ttl, content) ==
    [present |-> present, tokens |-> tokens, position |-> position,
     contentType |-> contentType, ttl |-> ttl, content |-> content]

SystemElement(tk, r, strategyConfig) ==
    Element(r.System # EmptyText, CountSystemTokens(tk, r.System), "system", "system",
            strategyConfig.SystemTTL, RefSystem)

SystemBlocksElement(tk, r, strategyConfig) ==
    Element(Len(r.SystemBlocks) > 0, CountSystemBlocksTokens(tk, r.SystemBlocks),
            "system_blocks", "system", strategyConfig.SystemTTL, RefSystemBlocks)

ToolsElement(tk, r, strategyConfig) ==
    Element(Len(r.Tools) > 0,
            SumSeq([i \in 1..Len(r.Tools) |-> CountToolTokens(tk, r.Tools[i])]),
            "tools", "tools", strategyConfig.ToolsTTL, RefTools)

BlockElement(tk, block, strategyConfig, i, j) ==
    Element(block.Type = "text" /\ block.Text # EmptyText, CountTokens(tk, block.Text),
            MessagePosition(i, j), "content",
            DetermineTTLForContent(block.Text, strategyConfig), RefBlock(i, j))

MessageElements(tk, r, strategyConfig) ==
    Flatten([i \in 1..Len(r.Messages) |->
               [j \in 1..Len(r.Messages[i].Content) |->
                  BlockElement(tk, r.Messages[i].Content[j], strategyConfig, i, j)]])

\* the candidates of the elements that are there and reach the minimum
CandidatesOf(elements, minTokens, lookups) ==
    Flatten([k \in 1..Len(elements) |->
               IF elements[k].present /\ elements[k].tokens >= minTokens
               THEN << CreateCandidate(elements[k].position, elements[k].tokens,
                                       elements[k].contentType, elements[k].ttl,
                                       lookups[elements[k].position],
                                       elements[k].content) >>
               ELSE <<>>])

CollectCacheCandidates_Reversed(tk, r, minTokens, strategyConfig, lookups) ==
    CandidatesOf(MessageElements(tk, r, strategyConfig)
                 \o << ToolsElement(tk, r, strategyConfig),
                       SystemBlocksElement(tk, r, strategyConfig),
                       SystemElement(tk, r, strategyConfig) >>,
                 minTokens, lookups)

\* lookups[position] is what the GetModelPricing calls made for the candidate
\* at that position return
CollectCacheCandidates(tk, r, minTokens, strategyConfig, lookups) ==
    CandidatesOf(<< SystemElement(tk, r, strategyConfig),
                    SystemBlocksElement(tk, r, strategyConfig),
                    ToolsElement(tk, r, strategyConfig) >>
                 \o MessageElements(tk, r, strategyConfig),
                 minTokens, lookups)

SelectCandidates_NoCap(candidates, maxBreakpoints) == candidates

\* candidates = candidates[:maxBreakpoints] when there are more
SelectCandidates(candidates, maxBreakpoints) ==
    IF Len(candidates) > maxBreakpoints
    THEN SubSeq(candidates, 1, maxBreakpoints)
    ELSE candidates

\* The result of applyCacheControlToContent: whether it reports the mark as
\* applied, and the request after the write through the pointer.
applyCacheControlToContent_First(r, content, cacheControl) ==
    CASE content.kind = "string" -> [applied |-> TRUE, req |-> r]
      [] content.kind = "blocks" ->
           IF Len(r.SystemBlocks) > 0
           THEN [applied |-> TRUE,
                 req |-> [r EXCEPT !.SystemBlocks[1].CacheControl = cacheControl]]
           ELSE [applied |-> FALSE, req |-> r]
      [] content.kind = "tools" ->
           IF Len(r.Tools) > 0
           THEN [applied |-> TRUE,
                 req |-> [r EXCEPT !.Tools[1].CacheControl = cacheControl]]
           ELSE [applied |-> FALSE, req |-> r]
      [] content.kind = "block" ->
           [applied |-> TRUE,
            req |-> [r EXCEPT !.Messages[content.msg].Content[content.blk].CacheControl
                                = cacheControl]]
      [] OTHER -> [applied |-> FALSE, req |-> r]

applyCacheControlToContent_WholeMessage(r, content, cacheControl) ==
    CASE content.kind = "string" -> [applied |-> TRUE, req |-> r]
      [] content.kind = "blocks" ->
           IF Len(r.SystemBlocks) > 0
           THEN [applied |-> TRUE,
                 req |-> [r EXCEPT !.SystemBlocks[Len(r.SystemBlocks)].CacheControl
                                     = cacheControl]]
           ELSE [applied |-> FALSE, req |-> r]
      [] content.kind = "tools" ->
           IF Len(r.Tools) > 0
           THEN [applied |-> TRUE,
                 req |-> [r EXCEPT !.Tools[Len(r.Tools)].CacheControl = cacheControl]]
           ELSE [applied |-> FALSE, req |-> r]
      [] content.kind = "block" ->
           [applied |-> TRUE,
            req |-> [r EXCEPT !.Messages[content.msg].Content =
                        [j \in 1..Len(@) |-> [@[j] EXCEPT !.CacheControl = cacheControl]]]]
      [] OTHER -> [applied |-> FALSE, req |-> r]

\* an element that already carries a mark is left alone and not reported
applyCacheControlToContent_SkipMarked(r, content, cacheControl) ==
    CASE content.kind = "string" -> [applied |-> TRUE, req |-> r]
      [] content.kind = "blocks" ->
           IF Len(r.SystemBlocks) > 0
              /\ r.SystemBlocks[Len(r.SystemBlocks)].CacheControl = NoCacheControl
           THEN [applied |-> TRUE,
                 req |-> [r EXCEPT !.SystemBlocks[Len(r.SystemBlocks)].CacheControl
                                     = cacheControl]]
           ELSE [applied |-> FALSE, req |-> r]
      [] content.kind = "tools" ->
           IF Len(r.Tools) > 0 /\ r.Tools[Len(r.Tools)].CacheControl = NoCacheControl
           THEN [applied |-> TRUE,
                 req |-> [r EXCEPT !.Tools[Len(r.Tools)].CacheControl = cacheControl]]
           ELSE [applied |-> FALSE, req |-> r]
      [] content.kind = "block" ->
           IF r.Messages[content.msg].Content[content.blk].CacheControl = NoCacheControl
           THEN [applied |-> TRUE,
                 req |-> [r EXCEPT !.Messages[content.msg].Content[content.blk].CacheControl
                                     = cacheControl]]
           ELSE [applied |-> FALSE, req |-> r]
      [] OTHER -> [applied |-> FALSE, req |-> r]

applyCacheControlToContent(r, content, cacheControl) ==
    CASE content.kind = "string" -> [applied |-> TRUE, req |-> r]
      [] content.kind = "blocks" ->
           IF Len(r.SystemBlocks) > 0
           THEN [applied |-> TRUE,
                 req |-> [r EXCEPT !.SystemBlocks[Len(r.SystemBlocks)].CacheControl
                                     = cacheControl]]
           ELSE [applied |-> FALSE, req |-> r]
      [] content.kind = "tools" ->
           IF Len(r.Tools) > 0
           THEN [applied |-> TRUE,
                 req |-> [r EXCEPT !.Tools[Len(r.Tools)].CacheControl = cacheControl]]
           ELSE [applied |-> FALSE, req |-> r]
      [] content.kind = "block" ->
           [applied |-> TRUE,
            req |-> [r EXCEPT !.Messages[content.msg].Content[content.blk].CacheControl
                                = cacheControl]]
      [] OTHER -> [applied |-> FALSE, req |-> r]

\* types.CacheBreakpoint, without its timestamp
CacheBreakpoint(candidate) ==
    [Position |-> candidate.Position, Tokens |-> candidate.Tokens,
     TTL |-> candidate.TTL, Type |-> candidate.ContentType,
     WritePrice |-> candidate.WriteCost, ReadSavings |-> candidate.ReadSavings]

\* ApplyCacheControl: the request after all writes, and the breakpoints of
\* the candidates whose write was reported as applied, in candidate order.
RECURSIVE ApplyCacheControl(_, _)
ApplyCacheControl(r, candidates) ==
    IF candidates = <<>> THEN [req |-> r, breakpoints |-> <<>>]
    ELSE LET candidate == Head(candidates)
             res == applyCacheControlToContent(r, candidate.Content,
                                               CacheControl(candidate.TTL))
             rest == ApplyCacheControl(res.req, Tail(candidates))
         IN  [req |-> rest.req,
              breakpoints |-> (IF res.applied THEN << CacheBreakpoint(candidate) >>
                               ELSE <<>>) \o rest.breakpoints]

\* types.CacheMetadata, without its Timestamp
NoMetadata ==
    [CacheInjected |-> FALSE, TotalTokens |-> 0, CachedTokens |-> 0,
     CacheRatio |-> FloatZero, Breakpoints |-> <<>>, ROI |-> ZeroROIMetrics,
     Strategy |-> "", Model |-> <<>>]

CacheMetadata(injected, totalTokens, cachedTokens, breakpoints, roi, strat, model) ==
    [CacheInjected |-> injected,
     TotalTokens |-> totalTokens,
     CachedTokens |-> cachedTokens,
     CacheRatio |-> IF totalTokens > 0
                    THEN Div(FromInt(cachedTokens), FromInt(totalTokens))
                    ELSE FloatZero,
     Breakpoints |-> breakpoints,
     ROI |-> roi,
     Strategy |-> strat, Model |-> model]

MetadataOf(injected, totalTokens, cachedTokens, breakpoints, lookups, strat, model) ==
    CacheMetadata(injected, totalTokens, cachedTokens, breakpoints,
                  CalculateROI(lookups, totalTokens, cachedTokens, breakpoints).roi,
                  strat, model)

calculateMetadata_AlwaysInjected(tk, strat, r, breakpoints, lookups) ==
    MetadataOf(TRUE, EstimateRequestTokens(tk, r),
               SumSeq([i \in 1..Len(breakpoints) |-> breakpoints[i].Tokens]),
               breakpoints, lookups, strat, r.Model)

\* lookups is what the GetModelPricing calls made by CalculateROI return;
\* MetadataOf and CacheMetadata build the metadata from the two token sums
calculateMetadata(tk, strat, r, breakpoints, lookups) ==
    MetadataOf(Len(breakpoints) > 0, EstimateRequestTokens(tk, r),
               SumSeq([i \in 1..Len(breakpoints) |-> breakpoints[i].Tokens]),
               breakpoints, lookups, strat, r.Model)

\* InjectCacheControl: the request after planning and the metadata returned.
\* lookups.cand[position] and lookups.roi are what the GetModelPricing calls
\* made during this run return.  SelectedCandidates are the candidates that
\* are collected and kept under the cap, and PlanOf is the result once
\* they are applied.
PlanOf(tk, strat, applied, lookups) ==
    [req |-> applied.req,
     metadata |-> calculateMetadata(tk, strat, applied.req, applied.breakpoints,
                                    lookups.roi)]

SelectedCandidates(tk, r, strategyConfig, lookups) ==
    SelectCandidates(
        CollectCacheCandidates(
            tk, r, AdjustedMinimum(GetModelMinimumTokens(tk, r.Model), strategyConfig),
            strategyConfig, lookups),
        strategyConfig.MaxBreakpoints)

InjectCacheControl(tk, strat, r, lookups) ==
    PlanOf(tk, strat,
           ApplyCacheControl(r, SelectedCandidates(tk, r, GetStrategyConfig(strat),
                                                   lookups.cand)),
           lookups)

MaxBlocksOf(r) == MaxSeq([i \in 1..Len(r.Messages) |-> Len(r.Messages[i].Content)])

\* The positions a candidate of r can have.
PositionsOf(r) ==
    {"system", "system_blocks", "tools"}
    \cup { MessagePosition(i, j) : i \in 1..Len(r.Messages), j \in 1..MaxBlocksOf(r) }

\* One run's GetModelPricing results in which every call returns the same.
SameLookups(r, l) ==
    [cand |-> [pos \in PositionsOf(r) |-> << l, l, l >>],
     roi |-> [pricing |-> l, writes |-> [i \in 1..4 |-> l], read |-> l]]

\* Every combination of results the GetModelPricing calls of one run of
\* InjectCacheControl on r can return.  The calls made for a candidate that
\* is cut by the cap reach no output and are not varied.  results are the
\* possible results of one call, any is one of them, selected are the
\* candidates kept under the cap, sel their positions and count their
\* number.
LookupsOf(r, results, any, sel, count) ==
    { [cand |-> [pos \in PositionsOf(r) |->
                   IF pos \in sel THEN c[pos] ELSE << any, any, any >>],
       roi |-> [pricing |-> p, writes |-> w, read |-> rd]] :
        c \in [sel -> results \X results \X results],
        p \in results,
        w \in [1..count -> results],
        rd \in results }

LookupsFor(r, results, any, selected) ==
    LookupsOf(r, results, any, { selected[i].Position : i \in 1..Len(selected) },
              Len(selected))

LookupsAmong(tk, strat, r, results, any) ==
    LookupsFor(r, results, any,
               SelectedCandidates(tk, r, GetStrategyConfig(strat),
                                  SameLookups(r, any).cand))

LookupsFrom(tk, strat, r, results) ==
    LookupsAmong(tk, strat, r, results, CHOOSE l \in results : TRUE)

PricingLookups(tk, strat, r) == LookupsFrom(tk, strat, r, GetModelPricing(r.Model))

(***************************************************************************)
(* The CountTokens calls of a run of InjectCacheControl.  The run          *)
(* counts every text of the request twice: CollectCacheCandidates counts   *)
(* the system, the tools and every text block, whether or not they reach   *)
(* the minimum, and calculateMetadata counts them again in                 *)
(* EstimateRequestTokens.                                                  *)
(***************************************************************************)
\* the non-empty texts one pass over r hands to CountTokens of the backend
\* tk, in the order of the calls.  The heuristic estimator counts the %v
\* rendering of a tool's schema, the two others its JSON.
CountedTexts(tk, r) ==
    LET nonEmpty(t) == IF t = EmptyText THEN <<>> ELSE << t >>
        ofBlock(block) == IF block.Type = "text" THEN nonEmpty(block.Text) ELSE <<>>
        ofTool(tool) ==
            nonEmpty(tool.Name) \o nonEmpty(tool.Description)
            \o (IF tool.InputSchema.nil THEN <<>>
                ELSE IF tk = "heuristic" THEN nonEmpty(tool.InputSchema.v)
                ELSE nonEmpty(tool.InputSchema.js))
    IN  nonEmpty(r.System)
        \o Flatten([i \in 1..Len(r.SystemBlocks) |-> ofBlock(r.SystemBlocks[i])])
        \o Flatten([i \in 1..Len(r.Tools) |-> ofTool(r.Tools[i])])
        \o Flatten([i \in 1..Len(r.Messages) |->
                      Flatten([j \in 1..Len(r.Messages[i].Content) |->
                                 ofBlock(r.Messages[i].Content[j])])])

\* the number of texts the two caches hold
CachedTexts(caches) ==
    Cardinality(DOMAIN caches["heuristic"]) + Cardinality(DOMAIN caches["fallback"])

(***************************************************************************)
(* The handler's response headers that describe the plan                   *)
(* (addCacheMetadataHeaders).  X-Autocache-Breakpoints is the list of      *)
(* "position:tokens:ttl" triples; it is not set when there are none.       *)
(***************************************************************************)
NoHeaders == [Injected |-> "", Breakpoints |-> <<>>]

FormatBool(b) == IF b THEN "true" ELSE "false"

addCacheMetadataHeaders(md) ==
    [Injected |-> FormatBool(md.CacheInjected),
     Breakpoints |-> [i \in 1..Len(md.Breakpoints) |->
                        << md.Breakpoints[i].Position, md.Breakpoints[i].Tokens,
                           md.Breakpoints[i].TTL >>]]

(***************************************************************************)
(* The upstream call and the response the handler writes for it: its       *)
(* status, its X-Autocache headers, and whether the handler goes on to     *)
(* storeRequestMetadata.                                                   *)
(***************************************************************************)
IsStreamingRequest(r) == r.Stream.set /\ r.Stream.v

\* http.StatusBadRequest, StatusMethodNotAllowed, StatusBadGateway, StatusOK
\* and the status of an upstream error response
StatusOf(name) ==
    CASE name = "BadRequest" -> 400
      [] name = "MethodNotAllowed" -> 405
      [] name = "BadGateway" -> 502
      [] name = "OK" -> 200
      [] name = "UpstreamError" -> 529

\* what the upstream call does: the connection fails; upstream answers 200
\* with a body that can be read and parsed (or streamed to the end); it
\* answers 200 with a body that cannot; it answers an error status with a
\* body that can be read; it answers an error status with one that cannot
UpstreamOutcomes ==
    {"failed", "ok", "ok_unreadable", "error_status", "error_status_unreadable"}

\* resp.StatusCode
UpstreamStatus(outcome) ==
    IF outcome \in {"ok", "ok_unreadable"} THEN StatusOf("OK")
    ELSE StatusOf("UpstreamError")

\* handleNonStreamingRequest after the planner: writeError when
\* ForwardRequest fails; writeRawResponse with the upstream status when
\* ReadAndParseResponse fails, which it does for every status but 200; else
\* the metadata headers, status 200 and storeRequestMetadata
handleNonStreamingRequest(md, outcome) ==
    CASE outcome = "failed" ->
           [status |-> StatusOf("BadGateway"), headers |-> NoHeaders, store |-> FALSE]
      [] outcome = "ok" ->
           [status |-> StatusOf("OK"), headers |-> addCacheMetadataHeaders(md),
            store |-> TRUE]
      [] OTHER ->
           [status |-> UpstreamStatus(outcome), headers |-> NoHeaders, store |-> FALSE]

\* handleStreamingRequest after the planner: the metadata headers are set
\* before ForwardStreamingRequest, which writes the upstream status and
\* copies the stream; the handler stores the metadata unless that returned
\* an error.  When the connection fails nothing was written, and the server
\* answers 200 as the handler returns.
handleStreamingRequest(md, outcome) ==
    CASE outcome = "failed" ->
           [status |-> StatusOf("OK"), headers |-> addCacheMetadataHeaders(md),
            store |-> FALSE]
      [] outcome \in {"ok", "error_status"} ->
           [status |-> UpstreamStatus(outcome), headers |-> addCacheMetadataHeaders(md),
            store |-> TRUE]
      [] OTHER ->
           [status |-> UpstreamStatus(outcome), headers |-> addCacheMetadataHeaders(md),
            store |-> FALSE]

\* forwardWithoutCaching: X-Autocache-Injected is set to "false" before the
\* upstream call, and nothing is stored
forwardWithoutCaching(r, outcome) ==
    [status |-> IF outcome = "failed"
                THEN (IF IsStreamingRequest(r) THEN StatusOf("OK")
                      ELSE StatusOf("BadGateway"))
                ELSE UpstreamStatus(outcome),
     headers |-> [NoHeaders EXCEPT !.Injected = "false"],
     store |-> FALSE]

(***************************************************************************)
(* Inbound request bodies.                                                 *)
(***************************************************************************)
SeqsUpTo(S, n) == UNION { [1..k -> S] : k \in 0..n }

TextBlock(t) == ContentBlock("text", t, NoCacheControl)
MarkedBlock(t) == ContentBlock("text", t, CacheControl("5m"))

MessageBlockChoices ==
    { TextBlock(LargeText), TextBlock(HugeText), MarkedBlock(SmallText) }

SystemStringChoices == { MidText, HugeText }
SystemBlockChoices == { MarkedBlock(SmallText), TextBlock(LargeText) }

ToolChoices ==
    { ToolDefinition(NameText, SmallText, Schema, CacheControl("5m")),
      ToolDefinition(NameText, HugeText, NilSchema, NoCacheControl) }

RoleAt(i) == IF i % 2 = 1 THEN "user" ELSE "assistant"

\* the wire messages with at most maxMsgs messages and budget blocks in all,
\* the first of which is message number first
RECURSIVE WireMessageSeqs(_, _, _)
WireMessageSeqs(first, maxMsgs, budget) ==
    {<<>>} \cup
    (IF maxMsgs = 0 \/ budget = 0 THEN {}
     ELSE UNION { { << [role |-> RoleAt(first), content |-> c] >> \o rest :
                      c \in { WireArray(bs) : bs \in [1..k -> MessageBlockChoices] }
                            \cup (IF k = 1 THEN { WireString(SmallText) } ELSE {}),
                      rest \in WireMessageSeqs(first + 1, maxMsgs - 1, budget - k) } :
                  k \in 1..budget })

WireSystems ==
    {WireAbsent, WireNull, WireString(EmptyText)}
    \cup { WireString(t) : t \in SystemStringChoices }
    \cup { WireArray(bs) : bs \in SeqsUpTo(SystemBlockChoices, MaxSystemBlocks) }

\* the identifiers whose pricing lookup has more than one possible result
FuzzyModels == { claude_3_opus_latest }

\* the identifiers that are no key of the pricing table and match none
UnknownModels == { claude_haiku_4_5, some_haiku_variant }

\* Requests that vary in their messages, with nothing or with cacheable
\* system blocks and tools in front of them.
RequestsVaryingMessages ==
    { WireRequest(claude_3_5_sonnet_20241022, 1024, msgs, pre[1], pre[2], NoOptions) :
        msgs \in WireMessageSeqs(1, MaxMessages, MaxTotalBlocks) \ {<<>>},
        pre \in { << WireAbsent, <<>> >>,
                  << WireArray(<< MarkedBlock(SmallText), TextBlock(LargeText) >>),
                     << ToolDefinition(NameText, SmallText, Schema, CacheControl("5m")),
                        ToolDefinition(NameText, HugeText, NilSchema, NoCacheControl) >> >> } }

\* Requests that vary in their system and tools, followed by one user message.
RequestsVaryingPrefix ==
    { WireRequest(m, 1024, << [role |-> "user", content |-> WireString(SmallText)] >>,
                  sys, tools, NoOptions) :
        m \in { claude_3_5_sonnet_20241022, claude_3_haiku_20240307 },
        sys \in WireSystems,
        tools \in SeqsUpTo(ToolChoices, MaxTools) }

\* Requests with a system string, a tool and message blocks that are all
\* above every threshold.
RequestsAllCacheable ==
    { WireRequest(claude_3_5_sonnet_20241022, 1024,
                  << [role |-> "user", content |-> WireArray(bs)] >>,
                  WireString(HugeText),
                  << ToolDefinition(NameText, HugeText, NilSchema, NoCacheControl) >>,
                  NoOptions) :
        bs \in { << TextBlock(HugeText) >>,
                 << TextBlock(HugeText), TextBlock(LargeText), TextBlock(HugeText) >> } }

\* Requests for a model that is in no way in the pricing table.
RequestsUnknownModel ==
    { WireRequest(m, 1024, << [role |-> "user", content |-> body[1]] >>, body[2], <<>>,
                  NoOptions) :
        m \in UnknownModels,
        body \in { << WireString(SmallText), WireAbsent >>,
                   << WireString(SmallText), WireString(HugeText) >>,
                   << WireArray(<< TextBlock(LargeText) >>), WireAbsent >> } }

\* Requests for a model priced through the fuzzy lookup, with at most one
\* candidate.
RequestsFuzzyModel ==
    { WireRequest(m, 1024, << [role |-> "user", content |-> c] >>, WireAbsent, <<>>,
                  NoOptions) :
        m \in FuzzyModels,
        c \in { WireString(SmallText), WireArray(<< TextBlock(BriefText) >>) } }

\* Requests with a text block of multi-byte runes, and with one the
\* embedded encoder gives no ids for.
RequestsMultibyte ==
    { WireRequest(claude_3_5_sonnet_20241022, 1024,
                  << [role |-> "user", content |-> WireArray(bs)] >>,
                  WireAbsent, <<>>, NoOptions) :
        bs \in { << TextBlock(WideText) >>, << TextBlock(MidText), TextBlock(WideText) >>,
                 << TextBlock(UnencodableText) >> } }

\* Requests that vary in their optional fields.
OptionChoices ==
    { Options(t, p, k, st, ss) :
        t \in {NilNumber, Pointer(0), Pointer(70)},
        p \in {NilNumber, Pointer(90)},
        k \in {NilNumber, Pointer(40)},
        st \in {NilBool, Pointer(FALSE), Pointer(TRUE)},
        ss \in {<<>>, << NameText >>} }

RequestsVaryingOptions ==
    { WireRequest(claude_3_5_sonnet_20241022, 1024,
                  << [role |-> "user", content |-> WireString(SmallText)] >>,
                  WireArray(<< TextBlock(LargeText) >>), <<>>, opt) :
        opt \in OptionChoices }

WireRequests ==
    RequestsVaryingMessages \cup RequestsVaryingPrefix \cup RequestsAllCacheable
    \cup RequestsUnknownModel \cup RequestsFuzzyModel \cup RequestsVaryingOptions
    \cup RequestsMultibyte

(***************************************************************************)
(* The gateway: one handler working on one request at a time.              *)
(***************************************************************************)
VARIABLES
    strategy,   \* CacheInjector.strategy
    tokenizer,  \* the backend behind CacheInjector.tokenizer
    pc,         \* the handler's position
    inbound,    \* the body received
    parsed,     \* the request as it was parsed
    req,        \* the request object
    counted,    \* the CountTokens calls InjectCacheControl has made in this pass
    placed,     \* the breakpoints ApplyCacheControl returned
    metadata,   \* the metadata InjectCacheControl returned
    upstream,   \* the body sent upstream
    headers,    \* the response's X-Autocache headers
    status,     \* the response's status, 0 before there is a response
    historySize,     \* config.SavingsHistorySize
    requestHistory,  \* AutocacheHandler.requestHistory
    historyMutex,    \* AutocacheHandler.historyMutex
    goroutines,      \* the state of each goroutine serving an HTTP request
    arrivals,        \* every record storeRequestMetadata took, in order
    served,          \* the number of HTTP requests accepted
    clock,           \* the number of time.Now() readings taken for a Timestamp
    breakpointArrays, \* the arrays behind the Breakpoints slices, by address
    panicCount,      \* OfflineTokenizer.panicCount
    fallbackCount,   \* OfflineTokenizer.fallbackCount
    offlineMu,       \* OfflineTokenizer.mu
    cache,           \* AnthropicTokenizer.cache of each instance
    mu,              \* AnthropicTokenizer.mu of each instance
    realCache,       \* RealTokenizer.cache
    callers,         \* the state of each goroutine inside CountTokens
    calls,           \* the number of direct CountTokens calls made
    recovered,       \* the number of panics recover() has caught
    crashed          \* the runtime has stopped the process (fatal error)

serverVars ==
    << historySize, requestHistory, historyMutex, goroutines, arrivals, served, clock,
       breakpointArrays >>

gatewayVars ==
    << strategy, tokenizer, pc, inbound, parsed, req, counted, placed, metadata,
       upstream, headers, status >>

tokenizerVars == << panicCount, fallbackCount, offlineMu, cache, mu, realCache, callers,
                   calls, recovered, crashed >>

vars == << strategy, tokenizer, pc, inbound, parsed, req, counted, placed, metadata,
           upstream, headers, status,
           historySize, requestHistory, historyMutex, goroutines, arrivals, served, clock,
           breakpointArrays,
           panicCount, fallbackCount, offlineMu, cache, mu, realCache, callers,
           calls, recovered, crashed >>

\* sync.RWMutex: the goroutine holding the write lock (0: none) and the
\* goroutines holding the read lock
UnlockedMutex == [writer |-> 0, readers |-> {}]

\* a goroutine of the HTTP server that is not serving a request
IdleGoroutine ==
    [pc |-> "idle", path |-> "", method |-> "", bypass |-> "", disable |-> "",
     body |-> EmptyWire, req |-> EmptyRequest, counted |-> 0, metadata |-> NoMetadata,
     timestamp |-> 0, planned |-> FALSE, sent |-> FALSE, upstream |-> EmptyWire,
     breakpoints |-> 0, status |-> 0, headers |-> NoHeaders, stored |-> FALSE,
     history |-> <<>>, recent |-> <<>>]

\* the goroutines of the HTTP server
Goroutines == {1, 2}

\* NewAutocacheHandler, before any request
NewAutocacheHandler ==
    /\ requestHistory = <<>>
    /\ historyMutex = UnlockedMutex
    /\ goroutines = [g \in Goroutines |-> IdleGoroutine]
    /\ arrivals = <<>>
    /\ served = 0
    /\ clock = 0
    /\ breakpointArrays = <<>>

\* a Go map with no keys
EmptyMap == [t \in {} |-> 0]

\* the AnthropicTokenizer instances: the one callers hold and the
\* OfflineTokenizer's fallbackTokenizer
Instances == {"heuristic", "fallback"}

\* a goroutine that is not inside CountTokens
IdleCaller ==
    [pc |-> "idle", backend |-> "", inst |-> "", text |-> EmptyText, result |-> 0,
     panicOccurred |-> FALSE, panicAdds |-> 0, raced |-> FALSE, inflight |-> {},
     err |-> FALSE]

\* The process has stopped: the runtime reported a fatal error, or a panic
\* went up a goroutine's stack with no recover on it.
Stopped == crashed \/ \E g \in Goroutines : callers[g].pc = "tk_exit"

\* NewAnthropicTokenizer, NewOfflineTokenizerWithLogger and NewRealTokenizer,
\* before any call
NewTokenizers ==
    /\ panicCount = 0
    /\ fallbackCount = 0
    /\ offlineMu = UnlockedMutex
    /\ cache = [i \in Instances |-> EmptyMap]
    /\ mu = [i \in Instances |-> UnlockedMutex]
    /\ realCache = EmptyMap
    /\ callers = [g \in Goroutines |-> IdleCaller]
    /\ calls = 0
    /\ recovered = 0
    /\ crashed = FALSE

\* the texts the caches of the gateway's estimators may hold, and the
\* fallbackCount the gateway's OfflineTokenizer may have reached, when a
\* request is accepted
MaxCachedTexts == 1
MaxFallbackCount == 2

\* sync.RWMutex: Lock() and RLock() can return
LockAvailable(m) == m.writer = 0 /\ m.readers = {}

RLockAvailable_IgnoringWriter(m) == TRUE

RLockAvailable(m) == m.writer = 0

(***************************************************************************)
(* The estimators under concurrent use: goroutines calling CountTokens on  *)
(* a shared AnthropicTokenizer, a shared OfflineTokenizer (whose           *)
(* fallbackTokenizer is an AnthropicTokenizer of its own), a shared        *)
(* AnthropicRealTokenizer and a shared RealTokenizer.  A lock, an atomic   *)
(* add and a map access are steps of their own; what lies between two of   *)
(* them touches no shared state.  The callers are the handlers, inside     *)
(* InjectCacheControl, and goroutines that call CountTokens directly.      *)
(***************************************************************************)
MaxCalls == 3

Backends == {"heuristic", "offline", "real"}

\* the texts the direct callers count
CalledTexts == {EmptyText, SmallText, LargeText}

\* what Tokenizer.EncodeSingle does with a text: an encoding, an error, or
\* a panic inside the library
EncodeOutcomes == {"ids", "error", "panic"}

\* what Tokenizer.EncodeSingle does with a text of a request body: the
\* encoding of the text's ids; for a text the encoder has no ids for, an
\* empty encoding, an error or a panic
EncodeSingle(text) == IF text.ids = 0 THEN EncodeOutcomes ELSE {"ids"}

\* a Go map after m[k] = v
MapAssign(m, k, v) == [t \in DOMAIN m \cup {k} |-> IF t = k THEN v ELSE m[t]]

\* input_tokens of the count_tokens endpoint for one user message holding
\* the text: the text's tokens and the message framing
APIInputTokens(text) == text.ids + 7

\* fallbackTokenCount for one user message with one text block
fallbackTokenCount(text) == (text.bytes \div 4) + 5

\* countTokensViaAPI: the endpoint's answer, or the estimate when the call
\* fails
countTokensViaAPI(text, ok) ==
    IF ok THEN APIInputTokens(text) ELSE fallbackTokenCount(text)

\* a goroutine that has entered CountTokens of a backend with a text; the
\* empty text returns 0 at once
CountTokens_Enter(backend, text) ==
    [IdleCaller EXCEPT
       !.backend = backend,
       !.inst = IF backend = "offline" THEN "fallback" ELSE backend,
       !.text = text,
       !.pc = IF text = EmptyText THEN "return"
              ELSE CASE backend = "heuristic" -> "at_rlock"
                     [] backend = "offline" -> "ot_rlock"
                     [] backend = "anthropic" -> "art_tokens"
                     [] backend = "real" -> "rt_lookup"]

\* CountTokens is called directly
CountTokens_Call(g) ==
    /\ ~Stopped
    /\ callers[g].pc = "idle"
    /\ calls < MaxCalls
    /\ calls' = calls + 1
    /\ \E backend \in Backends, text \in CalledTexts :
          callers' = [callers EXCEPT ![g] = CountTokens_Enter(backend, text)]
    /\ UNCHANGED << panicCount, fallbackCount, offlineMu, cache, mu, realCache,
                    recovered, crashed >>
    /\ UNCHANGED gatewayVars
    /\ UNCHANGED serverVars

\* OfflineTokenizer.Tokenize is called with a text: the empty text returns
\* nil at once
Tokenize_Call(g) ==
    /\ ~Stopped
    /\ callers[g].pc = "idle"
    /\ calls < MaxCalls
    /\ calls' = calls + 1
    /\ \E text \in CalledTexts :
          callers' = [callers EXCEPT ![g] =
                        [IdleCaller EXCEPT
                           !.backend = "offline",
                           !.text = text,
                           !.pc = IF text = EmptyText THEN "tk_return" ELSE "tk_rlock"]]
    /\ UNCHANGED << panicCount, fallbackCount, offlineMu, cache, mu, realCache,
                    recovered, crashed >>
    /\ UNCHANGED gatewayVars
    /\ UNCHANGED serverVars

\* OfflineTokenizer.Tokenize: ot.mu.RLock()
Tokenize_RLock(g) ==
    /\ ~Stopped
    /\ callers[g].pc = "tk_rlock"
    /\ RLockAvailable(offlineMu)
    /\ offlineMu' = [offlineMu EXCEPT !.readers = @ \cup {g}]
    /\ callers' = [callers EXCEPT ![g].pc = "tk_encode"]
    /\ UNCHANGED << panicCount, fallbackCount, cache, mu, realCache, calls,
                    recovered, crashed >>
    /\ UNCHANGED gatewayVars
    /\ UNCHANGED serverVars

\* OfflineTokenizer.Tokenize: EncodeSingle and the deferred RUnlock.  The
\* ids are returned, or an error; Tokenize has no recover, so a panic of
\* the encoder releases the lock and goes on to the caller.  The counters
\* are not touched.
Tokenize_EncodeSingle(g, outcomes) ==
    /\ ~Stopped
    /\ callers[g].pc = "tk_encode"
    /\ \E outcome \in outcomes :
          callers' = [callers EXCEPT
                        ![g].result = IF outcome = "ids" THEN callers[g].text.ids ELSE 0,
                        ![g].err = (outcome = "error"),
                        ![g].panicOccurred = (outcome = "panic"),
                        ![g].pc = IF outcome = "panic" THEN "tk_panic" ELSE "tk_return"]
    /\ offlineMu' = [offlineMu EXCEPT !.readers = @ \ {g}]
    /\ UNCHANGED << panicCount, fallbackCount, cache, mu, realCache, calls, recovered,
                    crashed >>
    /\ UNCHANGED gatewayVars
    /\ UNCHANGED serverVars

\* The panic that left Tokenize arrives in the caller: a caller with a
\* recover goes on, and without one the process stops.
Tokenize_Panic(g) ==
    /\ ~Stopped
    /\ callers[g].pc = "tk_panic"
    /\ \E recovers \in BOOLEAN :
          callers' = [callers EXCEPT ![g] =
                        IF recovers THEN IdleCaller ELSE [@ EXCEPT !.pc = "tk_exit"]]
    /\ UNCHANGED << panicCount, fallbackCount, offlineMu, cache, mu, realCache, calls,
                    recovered, crashed >>
    /\ UNCHANGED gatewayVars
    /\ UNCHANGED serverVars

\* OfflineTokenizer.Tokenize returns the ids and the token strings, or an
\* error
Tokenize_Return(g) ==
    /\ ~Stopped
    /\ callers[g].pc = "tk_return"
    /\ callers' = [callers EXCEPT ![g] = IdleCaller]
    /\ UNCHANGED << panicCount, fallbackCount, offlineMu, cache, mu, realCache, calls,
                    recovered, crashed >>
    /\ UNCHANGED gatewayVars
    /\ UNCHANGED serverVars

\* OfflineTokenizer.CountTokens: ot.mu.RLock()
OfflineTokenizer_RLock(g) ==
    /\ ~Stopped
    /\ callers[g].pc = "ot_rlock"
    /\ RLockAvailable(offlineMu)
    /\ offlineMu' = [offlineMu EXCEPT !.readers = @ \cup {g}]
    /\ callers' = [callers EXCEPT ![g].pc = "ot_encode"]
    /\ UNCHANGED << panicCount, fallbackCount, cache, mu, realCache, calls,
                    recovered, crashed >>
    /\ UNCHANGED gatewayVars
    /\ UNCHANGED serverVars

\* where CountTokens goes after the closure: the fallback when a panic was
\* recovered or the result is 0
AfterEncode(panicOccurred, result) ==
    IF panicOccurred \/ result = 0
    THEN (IF panicOccurred THEN "ot_panic_add" ELSE "ot_fallback_add")
    ELSE "return"

\* OfflineTokenizer.CountTokens: EncodeSingle, which does one of outcomes,
\* and the end of the closure.  The deferred RUnlock runs on every way out,
\* and the deferred recover() takes the panic.
OfflineTokenizer_EncodeSingle(g, outcomes) ==
    /\ ~Stopped
    /\ callers[g].pc = "ot_encode"
    /\ \E outcome \in outcomes :
          LET result == IF outcome = "ids" THEN callers[g].text.ids ELSE 0
              panicOccurred == outcome = "panic"
          IN  /\ callers' = [callers EXCEPT ![g].result = result,
                                            ![g].panicOccurred = panicOccurred,
                                            ![g].pc = AfterEncode(panicOccurred, result)]
              /\ recovered' = IF panicOccurred THEN recovered + 1 ELSE recovered
    /\ offlineMu' = [offlineMu EXCEPT !.readers = @ \ {g}]
    /\ UNCHANGED << panicCount, fallbackCount, cache, mu, realCache, calls, crashed >>
    /\ UNCHANGED gatewayVars
    /\ UNCHANGED serverVars

OfflineTokenizer_panicCount_Add_Skipped(g) ==
    /\ ~Stopped
    /\ callers[g].pc = "ot_panic_add"
    /\ callers' = [callers EXCEPT ![g].pc = "ot_fallback_add"]
    /\ UNCHANGED << panicCount, fallbackCount, offlineMu, cache, mu, realCache, calls,
                    recovered, crashed >>
    /\ UNCHANGED gatewayVars
    /\ UNCHANGED serverVars

\* OfflineTokenizer.CountTokens: ot.panicCount.Add(1)
OfflineTokenizer_panicCount_Add(g) ==
    /\ ~Stopped
    /\ callers[g].pc = "ot_panic_add"
    /\ panicCount' = panicCount + 1
    /\ callers' = [callers EXCEPT ![g].panicAdds = @ + 1,
                                  ![g].pc = "ot_fallback_add"]
    /\ UNCHANGED << fallbackCount, offlineMu, cache, mu, realCache, calls,
                    recovered, crashed >>
    /\ UNCHANGED gatewayVars
    /\ UNCHANGED serverVars

\* OfflineTokenizer.CountTokens: ot.fallbackCount.Add(1), and the call of
\* ot.fallbackTokenizer.CountTokens begins
OfflineTokenizer_fallbackCount_Add(g) ==
    /\ ~Stopped
    /\ callers[g].pc = "ot_fallback_add"
    /\ fallbackCount' = fallbackCount + 1
    /\ callers' = [callers EXCEPT ![g].pc = "at_rlock"]
    /\ UNCHANGED << panicCount, offlineMu, cache, mu, realCache, calls,
                    recovered, crashed >>
    /\ UNCHANGED gatewayVars
    /\ UNCHANGED serverVars

\* AnthropicTokenizer.CountTokens: t.mu.RLock()
AnthropicTokenizer_RLock(g) ==
    /\ ~Stopped
    /\ callers[g].pc = "at_rlock"
    /\ RLockAvailable(mu[callers[g].inst])
    /\ mu' = [mu EXCEPT ![callers[g].inst].readers = @ \cup {g}]
    /\ callers' = [callers EXCEPT ![g].pc = "at_reading"]
    /\ UNCHANGED << panicCount, fallbackCount, offlineMu, cache, realCache, calls,
                    recovered, crashed >>
    /\ UNCHANGED gatewayVars
    /\ UNCHANGED serverVars

\* AnthropicTokenizer.CountTokens: count, exists := t.cache[text] and
\* t.mu.RUnlock(); a hit returns
AnthropicTokenizer_RUnlock(g) ==
    /\ ~Stopped
    /\ callers[g].pc = "at_reading"
    /\ LET c == cache[callers[g].inst]
           exists == callers[g].text \in DOMAIN c
       IN  callers' = [callers EXCEPT
                         ![g].result = IF exists THEN c[callers[g].text] ELSE @,
                         ![g].pc = IF exists THEN "return" ELSE "at_lock"]
    /\ mu' = [mu EXCEPT ![callers[g].inst].readers = @ \ {g}]
    /\ UNCHANGED << panicCount, fallbackCount, offlineMu, cache, realCache, calls,
                    recovered, crashed >>
    /\ UNCHANGED gatewayVars
    /\ UNCHANGED serverVars

\* AnthropicTokenizer.CountTokens: the count is computed and t.mu.Lock()
AnthropicTokenizer_Lock(g) ==
    /\ ~Stopped
    /\ callers[g].pc = "at_lock"
    /\ LockAvailable(mu[callers[g].inst])
    /\ mu' = [mu EXCEPT ![callers[g].inst].writer = g]
    /\ callers' = [callers EXCEPT
                     ![g].result = AnthropicTokenizer_CountTokens(callers[g].text),
                     ![g].pc = "at_writing"]
    /\ UNCHANGED << panicCount, fallbackCount, offlineMu, cache, realCache, calls,
                    recovered, crashed >>
    /\ UNCHANGED gatewayVars
    /\ UNCHANGED serverVars

\* AnthropicTokenizer.CountTokens: t.cache[text] = result and t.mu.Unlock()
AnthropicTokenizer_Unlock(g) ==
    /\ ~Stopped
    /\ callers[g].pc = "at_writing"
    /\ cache' = [cache EXCEPT ![callers[g].inst] =
                    MapAssign(@, callers[g].text, callers[g].result)]
    /\ mu' = [mu EXCEPT ![callers[g].inst].writer = 0]
    /\ callers' = [callers EXCEPT ![g].pc = "return"]
    /\ UNCHANGED << panicCount, fallbackCount, offlineMu, realCache, calls,
                    recovered, crashed >>
    /\ UNCHANGED gatewayVars
    /\ UNCHANGED serverVars

\* AnthropicRealTokenizer.CountTokens: art.tokenizer.Tokens(text)
AnthropicRealTokenizer_Tokens(g) ==
    /\ ~Stopped
    /\ callers[g].pc = "art_tokens"
    /\ callers' = [callers EXCEPT
                     ![g].result = AnthropicRealTokenizer_CountTokens(callers[g].text),
                     ![g].pc = "return"]
    /\ UNCHANGED << panicCount, fallbackCount, offlineMu, cache, mu, realCache, calls,
                    recovered, crashed >>
    /\ UNCHANGED gatewayVars
    /\ UNCHANGED serverVars

\* what the value slot of m[text] can hold while the assignment
\* m[text] = count is under way: the runtime's map-assign inserts a key
\* that is new with the zero value and hands the slot to the caller, which
\* then stores count in it; the slot of a key that exists holds the old
\* value until then
SlotValues(m, text, count) ==
    {count} \cup (IF text \in DOMAIN m THEN {m[text]} ELSE {0})

\* the values a read of rt.cache[text] by goroutine g can find in the slot
\* on account of the assignments to the same key that are under way
InFlight(g, text) ==
    UNION { SlotValues(realCache, text, callers[h].result) :
              h \in { k \in Goroutines \ {g} :
                        callers[k].pc = "rt_writing" /\ callers[k].text = text } }

\* RealTokenizer.CountTokens: the read of rt.cache[text] begins.  No lock is
\* taken; the read races with an assignment that is under way.
RealTokenizer_Lookup_Begin(g) ==
    /\ ~Stopped
    /\ callers[g].pc = "rt_lookup"
    /\ callers' = [callers EXCEPT
                     ![g].raced = \E h \in Goroutines \ {g} : callers[h].pc = "rt_writing",
                     ![g].inflight = InFlight(g, callers[g].text),
                     ![g].pc = "rt_reading"]
    /\ UNCHANGED << panicCount, fallbackCount, offlineMu, cache, mu, realCache, calls,
                    recovered, crashed >>
    /\ UNCHANGED gatewayVars
    /\ UNCHANGED serverVars

\* what a read of the map can do, as the pair of its outcome and the count
\* it finds.  When nothing wrote during it, it finds the entry or no entry.
\* When an assignment overlapped it: the runtime's fatal error "concurrent
\* map read and map write" (the read tests the map's writing flag as it
\* starts); no entry; the entry as it is; or, for the key being assigned, a
\* value its slot held during the assignment (inflight), which is 0 for a
\* key that is inserted and not yet given its count.
LookupOutcomes(m, text, raced, inflight) ==
    (IF text \in DOMAIN m THEN {<< "hit", m[text] >>} ELSE {})
    \cup (IF raced
          THEN {<< "fatal", 0 >>, << "miss", 0 >>} \cup { << "hit", v >> : v \in inflight }
          ELSE IF text \in DOMAIN m THEN {} ELSE {<< "miss", 0 >>})

\* RealTokenizer.CountTokens: the read of rt.cache[text] ends; a hit returns
\* the count it found
RealTokenizer_Lookup_End(g) ==
    /\ ~Stopped
    /\ callers[g].pc = "rt_reading"
    /\ \E outcome \in LookupOutcomes(realCache, callers[g].text, callers[g].raced,
                                     callers[g].inflight) :
          /\ crashed' = (outcome[1] = "fatal")
          /\ callers' = [callers EXCEPT
                           ![g].result = IF outcome[1] = "hit" THEN outcome[2] ELSE @,
                           ![g].raced = FALSE,
                           ![g].inflight = {},
                           ![g].pc = CASE outcome[1] = "hit" -> "return"
                                       [] outcome[1] = "miss" -> "rt_api"
                                       [] outcome[1] = "fatal" -> "fatal"]
    /\ UNCHANGED << panicCount, fallbackCount, offlineMu, cache, mu, realCache, calls,
                    recovered >>
    /\ UNCHANGED gatewayVars
    /\ UNCHANGED serverVars

\* RealTokenizer.CountTokens: count := rt.countTokensViaAPI(req)
RealTokenizer_countTokensViaAPI(g) ==
    /\ ~Stopped
    /\ callers[g].pc = "rt_api"
    /\ \E ok \in BOOLEAN :
          callers' = [callers EXCEPT ![g].result = countTokensViaAPI(callers[g].text, ok),
                                     ![g].pc = "rt_store"]
    /\ UNCHANGED << panicCount, fallbackCount, offlineMu, cache, mu, realCache, calls,
                    recovered, crashed >>
    /\ UNCHANGED gatewayVars
    /\ UNCHANGED serverVars

\* RealTokenizer.CountTokens: the assignment rt.cache[text] = count begins.
\* No lock is taken; it races with every access that is under way, and a
\* read of the same key that is under way can find what the slot holds
\* during the assignment.
RealTokenizer_Store_Begin(g) ==
    /\ ~Stopped
    /\ callers[g].pc = "rt_store"
    /\ callers' = [h \in Goroutines |->
                     IF h = g
                     THEN [callers[g] EXCEPT
                             !.raced = \E k \in Goroutines \ {g} :
                                          callers[k].pc \in {"rt_reading", "rt_writing"},
                             !.pc = "rt_writing"]
                     ELSE IF callers[h].pc = "rt_reading"
                     THEN [callers[h] EXCEPT
                             !.raced = TRUE,
                             !.inflight =
                                 IF callers[h].text = callers[g].text
                                 THEN @ \cup SlotValues(realCache, callers[g].text,
                                                        callers[g].result)
                                 ELSE @]
                     ELSE IF callers[h].pc = "rt_writing"
                     THEN [callers[h] EXCEPT !.raced = TRUE]
                     ELSE callers[h]]
    /\ UNCHANGED << panicCount, fallbackCount, offlineMu, cache, mu, realCache, calls,
                    recovered, crashed >>
    /\ UNCHANGED gatewayVars
    /\ UNCHANGED serverVars

\* RealTokenizer.CountTokens: the assignment ends.  When another access
\* overlapped it the runtime may stop the process with "concurrent map
\* writes".
RealTokenizer_Store_End(g) ==
    /\ ~Stopped
    /\ callers[g].pc = "rt_writing"
    /\ \E fatal \in (IF callers[g].raced THEN BOOLEAN ELSE {FALSE}) :
          /\ crashed' = fatal
          /\ realCache' = IF fatal THEN realCache
                          ELSE MapAssign(realCache, callers[g].text, callers[g].result)
          /\ callers' = [callers EXCEPT ![g].raced = FALSE,
                                        ![g].pc = IF fatal THEN "fatal" ELSE "return"]
    /\ UNCHANGED << panicCount, fallbackCount, offlineMu, cache, mu, calls, recovered >>
    /\ UNCHANGED gatewayVars
    /\ UNCHANGED serverVars

\* CountTokens returns its result to the caller
CountTokens_Return(g) ==
    /\ ~Stopped
    /\ callers[g].pc = "return"
    /\ callers' = [callers EXCEPT ![g] = IdleCaller]
    /\ UNCHANGED << panicCount, fallbackCount, offlineMu, cache, mu, realCache, calls,
                    recovered, crashed >>
    /\ UNCHANGED gatewayVars
    /\ UNCHANGED serverVars

(***************************************************************************)
(* The gateway's handler.                                                  *)
(***************************************************************************)
\* the goroutine the gateway's handler runs on
Handler == CHOOSE g \in Goroutines : \A h \in Goroutines : g <= h

\* main: an injector for one of the strategies, with the backend of one of
\* the tokenizer modes
Init ==
    /\ historySize = 0
    /\ NewAutocacheHandler
    /\ NewTokenizers
    /\ strategy \in Strategies
    /\ \E mode \in TokenizerModes, initialized \in BOOLEAN :
          /\ NewCacheInjectorWithConfig(mode, initialized) # ""
          /\ tokenizer = NewCacheInjectorWithConfig(mode, initialized)
    /\ pc = "idle"
    /\ inbound = EmptyWire
    /\ parsed = EmptyRequest
    /\ req = EmptyRequest
    /\ counted = 0
    /\ placed = <<>>
    /\ metadata = NoMetadata
    /\ upstream = EmptyWire
    /\ headers = NoHeaders
    /\ status = 0

\* HandleMessages up to the dispatch: read and parse a body.
HandleMessages ==
    /\ pc = "idle"
    /\ CachedTexts(cache) < MaxCachedTexts
    /\ fallbackCount < MaxFallbackCount
    /\ \E w \in WireRequests :
          /\ inbound' = w
          /\ parsed' = UnmarshalJSON(w)
          /\ req' = UnmarshalJSON(w)
    /\ pc' = "parsed"
    /\ UNCHANGED << strategy, tokenizer, counted, placed, metadata, upstream,
                    headers, status >>
    /\ UNCHANGED serverVars
    /\ UNCHANGED tokenizerVars

\* InjectCacheControl, in CollectCacheCandidates and again in
\* EstimateRequestTokens: the handler enters CountTokens of the injector's
\* backend with the next text of the request.  The steps of the call are
\* the estimator's.
Inject_CountTokens ==
    /\ pc \in {"parsed", "collecting", "estimating"}
    /\ callers[Handler].pc = "idle"
    /\ counted < Len(CountedTexts(tokenizer, req))
    /\ callers' = [callers EXCEPT ![Handler] =
                     CountTokens_Enter(tokenizer,
                                       CountedTexts(tokenizer, req)[counted + 1])]
    /\ counted' = counted + 1
    /\ pc' = IF pc = "parsed" THEN "collecting" ELSE pc
    /\ UNCHANGED << strategy, tokenizer, inbound, parsed, req, placed, metadata,
                    upstream, headers, status >>
    /\ UNCHANGED serverVars
    /\ UNCHANGED << panicCount, fallbackCount, offlineMu, cache, mu, realCache, calls,
                    recovered, crashed >>

\* InjectCacheControl once CollectCacheCandidates has counted every text:
\* the candidates are cut to the cap and ApplyCacheControl writes the marks
\* into the request.  The GetModelPricing calls made for the candidates
\* return lookups.
Inject_ApplyCacheControl ==
    /\ pc \in {"parsed", "collecting"}
    /\ callers[Handler].pc = "idle"
    /\ counted = Len(CountedTexts(tokenizer, req))
    /\ \E lookups \in { l.cand : l \in PricingLookups(tokenizer, strategy, req) } :
          \E applied \in { ApplyCacheControl(
                               req, SelectedCandidates(tokenizer, req,
                                                       GetStrategyConfig(strategy),
                                                       lookups)) } :
              /\ req' = applied.req
              /\ placed' = applied.breakpoints
    /\ counted' = 0
    /\ pc' = "estimating"
    /\ UNCHANGED << strategy, tokenizer, inbound, parsed, metadata, upstream, headers,
                    status >>
    /\ UNCHANGED serverVars
    /\ UNCHANGED tokenizerVars

\* InjectCacheControl once EstimateRequestTokens has counted every text:
\* calculateMetadata builds the metadata and InjectCacheControl returns it.
\* The GetModelPricing calls made by CalculateROI return lookups.
Inject_calculateMetadata ==
    /\ pc = "estimating"
    /\ callers[Handler].pc = "idle"
    /\ counted = Len(CountedTexts(tokenizer, req))
    /\ \E lookups \in { l.roi : l \in PricingLookups(tokenizer, strategy, parsed) } :
          metadata' = calculateMetadata(tokenizer, strategy, req, placed, lookups)
    /\ counted' = 0
    /\ placed' = <<>>
    /\ pc' = "planned"
    /\ UNCHANGED << strategy, tokenizer, inbound, parsed, req, upstream, headers,
                    status >>
    /\ UNCHANGED serverVars
    /\ UNCHANGED tokenizerVars

\* handleStreamingRequest: addCacheMetadataHeaders before the upstream call
Forward_addCacheMetadataHeaders ==
    /\ pc = "planned"
    /\ IsStreamingRequest(req)
    /\ headers' = addCacheMetadataHeaders(metadata)
    /\ pc' = "announced"
    /\ UNCHANGED << strategy, tokenizer, inbound, parsed, req, counted, placed,
                    metadata, upstream, status >>
    /\ UNCHANGED serverVars
    /\ UNCHANGED tokenizerVars

\* ForwardRequest and ForwardStreamingRequest: the request object is
\* serialized and sent upstream; the handler waits for the response.
Forward_Send ==
    /\ pc = (IF IsStreamingRequest(req) THEN "announced" ELSE "planned")
    /\ upstream' = MarshalJSON(req)
    /\ pc' = "sent"
    /\ UNCHANGED << strategy, tokenizer, inbound, parsed, req, counted, placed,
                    metadata, headers, status >>
    /\ UNCHANGED serverVars
    /\ UNCHANGED tokenizerVars

\* handleNonStreamingRequest and handleStreamingRequest after the upstream
\* call: the response is written according to what the call did.
Forward_Respond ==
    /\ pc = "sent"
    /\ \E outcome \in UpstreamOutcomes :
          \E resp \in { IF IsStreamingRequest(req)
                        THEN handleStreamingRequest(metadata, outcome)
                        ELSE handleNonStreamingRequest(metadata, outcome) } :
              /\ headers' = resp.headers
              /\ status' = resp.status
    /\ pc' = "forwarded"
    /\ UNCHANGED << strategy, tokenizer, inbound, parsed, req, counted, placed,
                    metadata, upstream >>
    /\ UNCHANGED serverVars
    /\ UNCHANGED tokenizerVars

\* The handler returns; the request object is discarded.
Finish ==
    /\ pc = "forwarded"
    /\ pc' = "idle"
    /\ inbound' = EmptyWire
    /\ parsed' = EmptyRequest
    /\ req' = EmptyRequest
    /\ metadata' = NoMetadata
    /\ upstream' = EmptyWire
    /\ headers' = NoHeaders
    /\ status' = 0
    /\ UNCHANGED << strategy, tokenizer, counted, placed >>
    /\ UNCHANGED serverVars
    /\ UNCHANGED tokenizerVars

Next ==
    \/ HandleMessages
    \/ Inject_CountTokens
    \/ OfflineTokenizer_RLock(Handler)
    \/ OfflineTokenizer_EncodeSingle(Handler, EncodeSingle(callers[Handler].text))
    \/ OfflineTokenizer_panicCount_Add(Handler)
    \/ OfflineTokenizer_fallbackCount_Add(Handler)
    \/ AnthropicTokenizer_RLock(Handler)
    \/ AnthropicTokenizer_RUnlock(Handler)
    \/ AnthropicTokenizer_Lock(Handler)
    \/ AnthropicTokenizer_Unlock(Handler)
    \/ AnthropicRealTokenizer_Tokens(Handler)
    \/ CountTokens_Return(Handler)
    \/ Inject_ApplyCacheControl
    \/ Inject_calculateMetadata
    \/ Forward_addCacheMetadataHeaders
    \/ Forward_Send
    \/ Forward_Respond
    \/ Finish

Spec == Init /\ [][Next]_vars

(***************************************************************************)
(* The HTTP server: goroutines serving POST /v1/messages and GET /savings  *)
(* on one AutocacheHandler.                                                *)
(***************************************************************************)
MaxServed == 3
MaxHistorySize == 2

\* ProxyClient.ValidateRequest: the error, "" when there is none
RECURSIVE ValidateMessages(_, _)
ValidateMessages(messages, i) ==
    IF i > Len(messages) THEN ""
    ELSE IF messages[i].Role = ""
         THEN "message " \o ToString(i - 1) \o " is missing role"
    ELSE IF Len(messages[i].Content) = 0
         THEN "message " \o ToString(i - 1) \o " has no content"
    ELSE IF messages[i].Role \notin {"user", "assistant"}
         THEN "message " \o ToString(i - 1) \o " has invalid role: " \o messages[i].Role
    ELSE ValidateMessages(messages, i + 1)

ValidateRequest_MaxTokensNotChecked(r) ==
    IF r.Model = <<>> THEN "model is required"
    ELSE IF Len(r.Messages) = 0 THEN "at least one message is required"
    ELSE ValidateMessages(r.Messages, 1)

ValidateRequest(r) ==
    IF r.Model = <<>> THEN "model is required"
    ELSE IF r.MaxTokens <= 0 THEN "max_tokens must be positive"
    ELSE IF Len(r.Messages) = 0 THEN "at least one message is required"
    ELSE ValidateMessages(r.Messages, 1)

shouldBypassCaching_Never(g) == FALSE

\* shouldBypassCaching on the request headers of goroutine state g
shouldBypassCaching(g) ==
    \/ g.bypass \in {"true", "1"}
    \/ g.disable \in {"true", "1"}

\* Bodies POSTed to /v1/messages that pass validation: a system string that
\* gets a mark, the same streamed, and system blocks that carry a mark already.
ValidBodies ==
    { WireRequest(claude_3_5_sonnet_20241022, 1024,
                  << [role |-> "user", content |-> WireString(SmallText)] >>,
                  sys, <<>>,
                  Options(NilNumber, NilNumber, NilNumber, st, <<>>)) :
        sys \in { WireString(HugeText) }, st \in { NilBool, Pointer(TRUE) } }
    \cup
    { WireRequest(claude_3_5_sonnet_20241022, 1024,
                  << [role |-> "user", content |-> WireArray(<< TextBlock(LargeText) >>)] >>,
                  WireArray(<< MarkedBlock(SmallText), TextBlock(LargeText) >>), <<>>,
                  NoOptions) }

\* Bodies that HandleMessages turns down
InvalidBodies ==
    LET good == << [role |-> "user", content |-> WireString(SmallText)] >>
        Body(model, maxTokens, messages) ==
            WireRequest(model, maxTokens, messages, WireString(HugeText), <<>>, NoOptions)
    IN  { [Body(claude_3_5_sonnet_20241022, 1024, good) EXCEPT !.malformed = TRUE],
          Body(<<>>, 1024, good),
          Body(claude_3_5_sonnet_20241022, 0, good),
          Body(claude_3_5_sonnet_20241022, -1, good),
          Body(claude_3_5_sonnet_20241022, 1024, <<>>),
          Body(claude_3_5_sonnet_20241022, 1024,
               << [role |-> "", content |-> WireString(SmallText)] >>),
          Body(claude_3_5_sonnet_20241022, 1024,
               << [role |-> "system", content |-> WireString(SmallText)] >>),
          Body(claude_3_5_sonnet_20241022, 1024,
               << [role |-> "user", content |-> WireAbsent] >>),
          Body(claude_3_5_sonnet_20241022, 1024,
               << [role |-> "user", content |-> WireArray(<<>>)] >>),
          Body(claude_3_5_sonnet_20241022, 1024,
               good \o << [role |-> "assistant", content |-> WireArray(<<>>)] >>) }

\* A body whose message content is null: it decodes into one empty text block
NullContentBodies ==
    { WireRequest(claude_3_5_sonnet_20241022, 1024,
                  << [role |-> "user", content |-> WireNull] >>,
                  WireString(HugeText), <<>>, NoOptions) }

\* A body with a text the embedded encoder returns no ids for
UnencodableBodies ==
    { WireRequest(claude_3_5_sonnet_20241022, 1024,
                  << [role |-> "user",
                      content |-> WireArray(<< TextBlock(UnencodableText) >>)] >>,
                  WireAbsent, <<>>, NoOptions) }

\* The values of X-Autocache-Bypass and X-Autocache-Disable ("": not sent)
BypassHeaders ==
    { << "", "" >>, << "true", "" >>, << "1", "" >>, << "", "true" >>, << "", "1" >>,
      << "false", "yes" >> }

\* The HTTP requests to /v1/messages
MessagesRequests ==
    { [method |-> "POST", bypass |-> h[1], disable |-> h[2], body |-> b] :
        h \in BypassHeaders, b \in ValidBodies }
    \cup
    { [method |-> "POST", bypass |-> h[1], disable |-> h[2], body |-> b] :
        h \in { << "", "" >>, << "true", "" >> }, b \in InvalidBodies }
    \cup
    { [method |-> "POST", bypass |-> "", disable |-> "", body |-> b] :
        b \in NullContentBodies \cup UnencodableBodies }
    \cup
    { [method |-> "GET", bypass |-> "", disable |-> "", body |-> b] :
        b \in { w \in ValidBodies : w.system.kind = "array" } }

\* The requests a goroutine is given: every kind of request goes through the
\* first goroutine, and the others serve alongside it the valid POST that has
\* a system string, no stream field and no bypass header.
RequestsServedBy(g) ==
    IF g = 1 THEN MessagesRequests
    ELSE { h \in MessagesRequests :
             /\ h.method = "POST" /\ h.bypass = "" /\ h.disable = ""
             /\ h.body \in ValidBodies
             /\ h.body.system.kind = "string" /\ ~h.body.stream.set }

\* main's injector: the default strategy and the offline backend
ServerStrategy == "moderate"
ServerTokenizer == NewCacheInjectorWithConfig("offline", TRUE)

\* InjectCacheControl of main's injector on each body that can be decoded.
\* Its result depends on the injector and the request alone, so it is
\* computed once for each body and the handler reads it here.
ServedPlans ==
    { [body |-> b,
       plan |-> InjectCacheControl(
                    ServerTokenizer, ServerStrategy, UnmarshalJSON(b),
                    CHOOSE l \in PricingLookups(ServerTokenizer, ServerStrategy,
                                                UnmarshalJSON(b)) : TRUE)] :
        b \in { h.body : h \in { m \in MessagesRequests : ~UnmarshalError(m.body) } } }

\* ah.injector.InjectCacheControl(req) in the handlers
InjectCacheControlServed(b) == (CHOOSE p \in ServedPlans : p.body = b).plan

\* HandleMessages up to the dispatch: the method, parsing, validation and
\* the bypass headers.  forwardWithoutCaching begins by setting
\* X-Autocache-Injected to "false"; the two other handlers begin with
\* InjectCacheControl.
ServeMessages(g) ==
    /\ goroutines[g].pc = "idle"
    /\ served < MaxServed
    /\ served' = served + 1
    /\ \E h \in RequestsServedBy(g) :
       \E accepted \in { [goroutines[g] EXCEPT !.path = "/v1/messages",
                            !.method = h.method, !.bypass = h.bypass,
                            !.disable = h.disable, !.body = h.body] } :
       \E r \in { IF UnmarshalError(h.body) THEN EmptyRequest
                  ELSE UnmarshalJSON(h.body) } :
       \E turnedDown \in { \/ h.method # "POST"
                           \/ UnmarshalError(h.body)
                           \/ ValidateRequest(r) # "" } :
          goroutines' =
             [goroutines EXCEPT ![g] =
                IF h.method # "POST"
                THEN [accepted EXCEPT !.pc = "done",
                                      !.status = StatusOf("MethodNotAllowed")]
                ELSE IF turnedDown
                THEN [accepted EXCEPT !.pc = "done", !.status = StatusOf("BadRequest")]
                ELSE IF shouldBypassCaching(accepted)
                THEN [accepted EXCEPT !.pc = "forwarding", !.req = r,
                                      !.headers = [NoHeaders EXCEPT !.Injected = "false"]]
                ELSE [accepted EXCEPT !.pc = "collecting", !.req = r,
                                      !.planned = TRUE]]
    /\ UNCHANGED gatewayVars
    /\ UNCHANGED tokenizerVars
    /\ UNCHANGED << historySize, requestHistory, historyMutex, arrivals, clock,
                    breakpointArrays >>

\* InjectCacheControl, in CollectCacheCandidates and again in
\* EstimateRequestTokens: the handler enters CountTokens of the injector's
\* backend with the next text of the request.  The steps of the call are
\* the estimator's.
Plan_CountTokens(g) ==
    /\ goroutines[g].pc \in {"collecting", "estimating"}
    /\ callers[g].pc = "idle"
    /\ goroutines[g].counted < Len(CountedTexts(tokenizer, goroutines[g].req))
    /\ callers' = [callers EXCEPT ![g] =
                     CountTokens_Enter(tokenizer,
                                       CountedTexts(tokenizer, goroutines[g].req)
                                           [goroutines[g].counted + 1])]
    /\ goroutines' = [goroutines EXCEPT ![g].counted = @ + 1]
    /\ UNCHANGED gatewayVars
    /\ UNCHANGED << panicCount, fallbackCount, offlineMu, cache, mu, realCache, calls,
                    recovered, crashed >>
    /\ UNCHANGED << historySize, requestHistory, historyMutex, arrivals, served, clock,
                    breakpointArrays >>

\* append in ApplyCacheControl: a slice that got an element has an array of
\* its own, at a fresh address; a slice nothing was appended to is nil
NewArray(arrays, elements) ==
    IF Len(elements) = 0 THEN arrays ELSE Append(arrays, elements)

\* the slice ApplyCacheControl returns, named by the address of its array
\* (0: the nil slice)
SliceOf(arrays, elements) ==
    IF Len(elements) = 0 THEN 0 ELSE Len(arrays) + 1

\* InjectCacheControl once CollectCacheCandidates has counted every text:
\* the candidates are cut to the cap and ApplyCacheControl writes the marks
\* into the request and returns the breakpoints as a new slice.
Plan_ApplyCacheControl(g) ==
    /\ goroutines[g].pc = "collecting"
    /\ callers[g].pc = "idle"
    /\ goroutines[g].counted = Len(CountedTexts(tokenizer, goroutines[g].req))
    /\ \E placedHere \in { InjectCacheControlServed(goroutines[g].body).metadata.Breakpoints } :
          /\ breakpointArrays' = NewArray(breakpointArrays, placedHere)
          /\ goroutines' = [goroutines EXCEPT
                              ![g].req = InjectCacheControlServed(goroutines[g].body).req,
                              ![g].breakpoints = SliceOf(breakpointArrays, placedHere),
                              ![g].counted = 0,
                              ![g].pc = "estimating"]
    /\ UNCHANGED gatewayVars
    /\ UNCHANGED tokenizerVars
    /\ UNCHANGED << historySize, requestHistory, historyMutex, arrivals, served, clock >>

\* InjectCacheControl once EstimateRequestTokens has counted every text:
\* calculateMetadata builds the metadata, with time.Now() as its Timestamp,
\* and InjectCacheControl returns it.
Plan_calculateMetadata(g) ==
    /\ goroutines[g].pc = "estimating"
    /\ callers[g].pc = "idle"
    /\ goroutines[g].counted = Len(CountedTexts(tokenizer, goroutines[g].req))
    /\ clock' = clock + 1
    /\ goroutines' = [goroutines EXCEPT
                        ![g].metadata = InjectCacheControlServed(goroutines[g].body).metadata,
                        ![g].timestamp = clock + 1,
                        ![g].counted = 0,
                        ![g].pc = "planned"]
    /\ UNCHANGED gatewayVars
    /\ UNCHANGED tokenizerVars
    /\ UNCHANGED << historySize, requestHistory, historyMutex, arrivals, served,
                    breakpointArrays >>

\* handleStreamingRequest: addCacheMetadataHeaders before the upstream call
ForwardUpstream_addCacheMetadataHeaders(g) ==
    /\ goroutines[g].pc = "planned"
    /\ IsStreamingRequest(goroutines[g].req)
    /\ goroutines' = [goroutines EXCEPT
                        ![g].headers = addCacheMetadataHeaders(goroutines[g].metadata),
                        ![g].pc = "forwarding"]
    /\ UNCHANGED gatewayVars
    /\ UNCHANGED tokenizerVars
    /\ UNCHANGED << historySize, requestHistory, historyMutex, arrivals, served, clock,
                    breakpointArrays >>

\* ForwardRequest and ForwardStreamingRequest: the request object is
\* serialized and sent upstream; the goroutine waits for the response.
ForwardUpstream_Send(g) ==
    /\ \/ goroutines[g].pc = "forwarding"
       \/ goroutines[g].pc = "planned" /\ ~IsStreamingRequest(goroutines[g].req)
    /\ goroutines' = [goroutines EXCEPT
                        ![g].sent = TRUE,
                        ![g].upstream = MarshalJSON(goroutines[g].req),
                        ![g].pc = "waiting"]
    /\ UNCHANGED gatewayVars
    /\ UNCHANGED tokenizerVars
    /\ UNCHANGED << historySize, requestHistory, historyMutex, arrivals, served, clock,
                    breakpointArrays >>

\* The handlers after the upstream call: the response is written according
\* to what the call did, up to storeRequestMetadata.
ForwardUpstream_Respond(g) ==
    /\ goroutines[g].pc = "waiting"
    /\ \E outcome \in UpstreamOutcomes :
          \E resp \in { IF ~goroutines[g].planned
                        THEN forwardWithoutCaching(goroutines[g].req, outcome)
                        ELSE IF IsStreamingRequest(goroutines[g].req)
                        THEN handleStreamingRequest(goroutines[g].metadata, outcome)
                        ELSE handleNonStreamingRequest(goroutines[g].metadata, outcome) } :
              goroutines' = [goroutines EXCEPT
                               ![g].pc = IF resp.store THEN "storing" ELSE "done",
                               ![g].status = resp.status,
                               ![g].headers = resp.headers]
    /\ UNCHANGED gatewayVars
    /\ UNCHANGED tokenizerVars
    /\ UNCHANGED << historySize, requestHistory, historyMutex, arrivals, served, clock,
                    breakpointArrays >>

\* the types.CacheMetadata value a goroutine stores: *metadata, a copy of the
\* struct whose Breakpoints field is the slice ApplyCacheControl returned,
\* with the same array behind it
RecordOf(s) ==
    [Metadata |-> [s.metadata EXCEPT !.Breakpoints = s.breakpoints],
     Timestamp |-> s.timestamp]

\* what a reader of the records finds, going through their Breakpoints
\* slices to the arrays
Dereference(records, arrays) ==
    [i \in 1..Len(records) |->
       [records[i] EXCEPT !.Metadata.Breakpoints = IF @ = 0 THEN <<>> ELSE arrays[@]]]

\* storeRequestMetadata: return when the history is disabled, else Lock
storeRequestMetadata_Lock(g) ==
    /\ goroutines[g].pc = "storing"
    /\ IF historySize = 0
       THEN /\ goroutines' = [goroutines EXCEPT ![g].pc = "done"]
            /\ arrivals' = Append(arrivals, RecordOf(goroutines[g]))
            /\ UNCHANGED historyMutex
       ELSE /\ LockAvailable(historyMutex)
            /\ historyMutex' = [historyMutex EXCEPT !.writer = g]
            /\ goroutines' = [goroutines EXCEPT ![g].pc = "locked"]
            /\ UNCHANGED arrivals
    /\ UNCHANGED gatewayVars
    /\ UNCHANGED tokenizerVars
    /\ UNCHANGED << historySize, requestHistory, served, clock,
                    breakpointArrays >>

\* storeRequestMetadata: append(ah.requestHistory, *metadata)
storeRequestMetadata_Append(g) ==
    /\ goroutines[g].pc = "locked"
    /\ requestHistory' = Append(requestHistory, RecordOf(goroutines[g]))
    /\ arrivals' = Append(arrivals, RecordOf(goroutines[g]))
    /\ goroutines' = [goroutines EXCEPT ![g].pc = "appended"]
    /\ UNCHANGED gatewayVars
    /\ UNCHANGED tokenizerVars
    /\ UNCHANGED << historySize, historyMutex, served, clock,
                    breakpointArrays >>

Truncate_KeepFirst(h, k) == IF Len(h) > k THEN SubSeq(h, 1, k) ELSE h

\* storeRequestMetadata: keep only the last SavingsHistorySize records
Truncate(h, k) == IF Len(h) > k THEN SubSeq(h, Len(h) - k + 1, Len(h)) ELSE h

\* storeRequestMetadata: the truncation and the deferred Unlock
storeRequestMetadata_Unlock(g) ==
    /\ goroutines[g].pc = "appended"
    /\ requestHistory' = Truncate(requestHistory, historySize)
    /\ historyMutex' = [historyMutex EXCEPT !.writer = 0]
    /\ goroutines' = [goroutines EXCEPT ![g].pc = "done", ![g].stored = TRUE]
    /\ UNCHANGED gatewayVars
    /\ UNCHANGED tokenizerVars
    /\ UNCHANGED << historySize, arrivals, served, clock,
                    breakpointArrays >>

\* HandleSavings: the Content-Type header and WriteHeader(200), whatever
\* the state of historyMutex
HandleSavings(g) ==
    /\ goroutines[g].pc = "idle"
    /\ served < MaxServed
    /\ served' = served + 1
    /\ goroutines' = [goroutines EXCEPT ![g] =
                        [@ EXCEPT !.pc = "savings", !.path = "/savings",
                                  !.method = "GET", !.status = StatusOf("OK")]]
    /\ UNCHANGED gatewayVars
    /\ UNCHANGED tokenizerVars
    /\ UNCHANGED << historySize, requestHistory, historyMutex, arrivals, clock,
                    breakpointArrays >>

\* HandleSavings: historyMutex.RLock(), which waits while a
\* storeRequestMetadata holds the lock
HandleSavings_RLock(g) ==
    /\ goroutines[g].pc = "savings"
    /\ RLockAvailable(historyMutex)
    /\ historyMutex' = [historyMutex EXCEPT !.readers = @ \cup {g}]
    /\ goroutines' = [goroutines EXCEPT ![g].pc = "rlocked"]
    /\ UNCHANGED gatewayVars
    /\ UNCHANGED tokenizerVars
    /\ UNCHANGED << historySize, requestHistory, arrivals, served, clock,
                    breakpointArrays >>

\* HandleSavings: make, copy and historyMutex.RUnlock().  copy copies the
\* structs: the Breakpoints slices of the copy have the arrays of the
\* history's behind them.
HandleSavings_Copy(g) ==
    /\ goroutines[g].pc = "rlocked"
    /\ goroutines' = [goroutines EXCEPT ![g].pc = "snapshot",
                                        ![g].history = requestHistory]
    /\ historyMutex' = [historyMutex EXCEPT !.readers = @ \ {g}]
    /\ UNCHANGED gatewayVars
    /\ UNCHANGED tokenizerVars
    /\ UNCHANGED << historySize, requestHistory, arrivals, served, clock,
                    breakpointArrays >>

\* HandleSavings: the statistics are computed from the copy, and the copy
\* is encoded as recent_requests, reading the arrays as they are now
HandleSavings_Respond(g) ==
    /\ goroutines[g].pc = "snapshot"
    /\ goroutines' = [goroutines EXCEPT
                        ![g].pc = "done",
                        ![g].recent = Dereference(goroutines[g].history, breakpointArrays)]
    /\ UNCHANGED gatewayVars
    /\ UNCHANGED tokenizerVars
    /\ UNCHANGED << historySize, requestHistory, historyMutex, arrivals, served, clock,
                    breakpointArrays >>

\* The handler has returned; the goroutine can serve another request.
Return(g) ==
    /\ goroutines[g].pc = "done"
    /\ goroutines' = [goroutines EXCEPT ![g] = IdleGoroutine]
    /\ UNCHANGED gatewayVars
    /\ UNCHANGED tokenizerVars
    /\ UNCHANGED << historySize, requestHistory, historyMutex, arrivals, served, clock,
                    breakpointArrays >>

\* main: the configuration defaults, but for SAVINGS_HISTORY_SIZE
ServerInit ==
    /\ historySize \in 0..MaxHistorySize
    /\ NewAutocacheHandler
    /\ NewTokenizers
    /\ strategy = ServerStrategy
    /\ tokenizer = ServerTokenizer
    /\ pc = "idle"
    /\ inbound = EmptyWire
    /\ parsed = EmptyRequest
    /\ req = EmptyRequest
    /\ counted = 0
    /\ placed = <<>>
    /\ metadata = NoMetadata
    /\ upstream = EmptyWire
    /\ headers = NoHeaders
    /\ status = 0

ServerNext ==
    \/ \E g \in Goroutines : ServeMessages(g)
    \/ \E g \in Goroutines : Plan_CountTokens(g)
    \/ \E g \in Goroutines : OfflineTokenizer_RLock(g)
    \/ \E g \in Goroutines : OfflineTokenizer_EncodeSingle(g, EncodeSingle(callers[g].text))
    \/ \E g \in Goroutines : OfflineTokenizer_panicCount_Add(g)
    \/ \E g \in Goroutines : OfflineTokenizer_fallbackCount_Add(g)
    \/ \E g \in Goroutines : AnthropicTokenizer_RLock(g)
    \/ \E g \in Goroutines : AnthropicTokenizer_RUnlock(g)
    \/ \E g \in Goroutines : AnthropicTokenizer_Lock(g)
    \/ \E g \in Goroutines : AnthropicTokenizer_Unlock(g)
    \/ \E g \in Goroutines : CountTokens_Return(g)
    \/ \E g \in Goroutines : Plan_ApplyCacheControl(g)
    \/ \E g \in Goroutines : Plan_calculateMetadata(g)
    \/ \E g \in Goroutines : ForwardUpstream_addCacheMetadataHeaders(g)
    \/ \E g \in Goroutines : ForwardUpstream_Send(g)
    \/ \E g \in Goroutines : ForwardUpstream_Respond(g)
    \/ \E g \in Goroutines : storeRequestMetadata_Lock(g)
    \/ \E g \in Goroutines : storeRequestMetadata_Append(g)
    \/ \E g \in Goroutines : storeRequestMetadata_Unlock(g)
    \/ \E g \in Goroutines : HandleSavings(g)
    \/ \E g \in Goroutines : HandleSavings_RLock(g)
    \/ \E g \in Goroutines : HandleSavings_Copy(g)
    \/ \E g \in Goroutines : HandleSavings_Respond(g)
    \/ \E g \in Goroutines : Return(g)

SpecServer == ServerInit /\ [][ServerNext]_vars

(***************************************************************************)
(* Goroutines that call CountTokens directly, with no HTTP request.        *)
(***************************************************************************)
\* the estimators as constructed, and no HTTP request
TokenizerInit ==
    /\ historySize = 0
    /\ NewAutocacheHandler
    /\ NewTokenizers
    /\ strategy = "moderate"
    /\ tokenizer = NewCacheInjectorWithConfig("offline", TRUE)
    /\ pc = "idle"
    /\ inbound = EmptyWire
    /\ parsed = EmptyRequest
    /\ req = EmptyRequest
    /\ counted = 0
    /\ placed = <<>>
    /\ metadata = NoMetadata
    /\ upstream = EmptyWire
    /\ headers = NoHeaders
    /\ status = 0

TokenizerNext ==
    \/ \E g \in Goroutines : CountTokens_Call(g)
    \/ \E g \in Goroutines : Tokenize_Call(g)
    \/ \E g \in Goroutines : Tokenize_RLock(g)
    \/ \E g \in Goroutines : Tokenize_EncodeSingle(g, EncodeOutcomes)
    \/ \E g \in Goroutines : Tokenize_Panic(g)
    \/ \E g \in Goroutines : Tokenize_Return(g)
    \/ \E g \in Goroutines : OfflineTokenizer_RLock(g)
    \/ \E g \in Goroutines : OfflineTokenizer_EncodeSingle(g, EncodeOutcomes)
    \/ \E g \in Goroutines : OfflineTokenizer_panicCount_Add(g)
    \/ \E g \in Goroutines : OfflineTokenizer_fallbackCount_Add(g)
    \/ \E g \in Goroutines : AnthropicTokenizer_RLock(g)
    \/ \E g \in Goroutines : AnthropicTokenizer_RUnlock(g)
    \/ \E g \in Goroutines : AnthropicTokenizer_Lock(g)
    \/ \E g \in Goroutines : AnthropicTokenizer_Unlock(g)
    \/ \E g \in Goroutines : RealTokenizer_Lookup_Begin(g)
    \/ \E g \in Goroutines : RealTokenizer_Lookup_End(g)
    \/ \E g \in Goroutines : RealTokenizer_countTokensViaAPI(g)
    \/ \E g \in Goroutines : RealTokenizer_Store_Begin(g)
    \/ \E g \in Goroutines : RealTokenizer_Store_End(g)
    \/ \E g \in Goroutines : CountTokens_Return(g)

SpecTokenizer == TokenizerInit /\ [][TokenizerNext]_vars

(***************************************************************************)
(* Vocabulary of the properties.                                           *)
(***************************************************************************)
\* InjectCacheControl has returned
Planned == pc \in {"planned", "announced", "sent", "forwarded"}

\* the request has been written to the upstream connection
Sent == pc \in {"sent", "forwarded"}

Positions(bps) == [i \in 1..Len(bps) |-> bps[i].Position]

HasPosition(bps, pos) == \E i \in 1..Len(bps) : bps[i].Position = pos

IsMark(cc) == cc # NoCacheControl

\* the documented strategy table
DocMaxBreakpoints(s) ==
    CASE s = "conservative" -> 2 [] s = "moderate" -> 3 [] s = "aggressive" -> 4

DocMultiplier10(s) ==
    CASE s = "conservative" -> 20 [] s = "moderate" -> 10 [] s = "aggressive" -> 8

DocThreshold(tk, model, s) ==
    (GetModelMinimumTokens(tk, model) * DocMultiplier10(s)) \div 10

\* the candidates collected from the request as it was parsed
CollectedCandidates ==
    CollectCacheCandidates(tokenizer, parsed,
                           DocThreshold(tokenizer, parsed.Model, strategy),
                           GetStrategyConfig(strategy),
                           SameLookups(parsed,
                                       CHOOSE l \in GetModelPricing(parsed.Model) : TRUE).cand)

\* the number of cache_control marks a request object carries
MarksOfBlocks(bs) == Cardinality({ i \in 1..Len(bs) : IsMark(bs[i].CacheControl) })

TotalMarks(r) ==
    MarksOfBlocks(r.SystemBlocks) + MarksOfBlocks(r.Tools)
    + SumSeq([i \in 1..Len(r.Messages) |-> MarksOfBlocks(r.Messages[i].Content)])

\* the cache_control found in a request object at a breakpoint's position
MarkAt(r, pos) ==
    IF pos \in {"system", "system_blocks"}
    THEN (IF Len(r.SystemBlocks) > 0
          THEN r.SystemBlocks[Len(r.SystemBlocks)].CacheControl ELSE NoCacheControl)
    ELSE IF pos = "tools"
    THEN (IF Len(r.Tools) > 0 THEN r.Tools[Len(r.Tools)].CacheControl ELSE NoCacheControl)
    ELSE LET at == { ij \in (1..Len(r.Messages)) \X (1..(MaxTotalBlocks + 1)) :
                       /\ ij[2] \in DOMAIN r.Messages[ij[1]].Content
                       /\ MessagePosition(ij[1], ij[2]) = pos }
         IN  IF at = {} THEN NoCacheControl
             ELSE LET ij == CHOOSE x \in at : TRUE
                  IN  r.Messages[ij[1]].Content[ij[2]].CacheControl

\* structural rank of a position: system, then tools, then (message, block)
Rank(r, pos) ==
    IF pos \in {"system", "system_blocks"} THEN << 0, 0, 0 >>
    ELSE IF pos = "tools" THEN << 1, 0, 0 >>
    ELSE LET ij == CHOOSE x \in (1..Len(r.Messages)) \X (1..(MaxTotalBlocks + 1)) :
                      MessagePosition(x[1], x[2]) = pos
         IN  << 2, ij[1], ij[2] >>

LexLess(a, b) ==
    \/ a[1] < b[1]
    \/ a[1] = b[1] /\ a[2] < b[2]
    \/ a[1] = b[1] /\ a[2] = b[2] /\ a[3] < b[3]

\* a request with every cache_control removed
ClearBlocks(bs) == [i \in 1..Len(bs) |-> [bs[i] EXCEPT !.CacheControl = NoCacheControl]]

ClearMarks(r) ==
    [r EXCEPT !.SystemBlocks = ClearBlocks(@),
              !.Tools = ClearBlocks(@),
              !.Messages = [i \in 1..Len(@) |-> [@[i] EXCEPT !.Content = ClearBlocks(@)]]]

(***************************************************************************)
(* C1.  The number of breakpoints InjectCacheControl returns is at most    *)
(* the strategy's max_breakpoints, 2 for conservative, 3 for moderate and  *)
(* 4 for aggressive, hence never more than 4.                              *)
(***************************************************************************)
C1_BreakpointsWithinCap ==
    Planned =>
        /\ GetStrategyConfig(strategy).MaxBreakpoints = DocMaxBreakpoints(strategy)
        /\ Len(metadata.Breakpoints) <= DocMaxBreakpoints(strategy)
        /\ Len(metadata.Breakpoints) <= 4

\* a plan that was cut: more candidates were collected than the cap admits
C1_Witness ==
    /\ pc = "planned"
    /\ Len(CollectedCandidates) > DocMaxBreakpoints(strategy)
    /\ Len(metadata.Breakpoints) = DocMaxBreakpoints(strategy)

(***************************************************************************)
(* C2.  After InjectCacheControl the request object carries at most four   *)
(* cache_control marks over system blocks, tools and message blocks, also  *)
(* when the request carried marks when it was parsed.                      *)
(***************************************************************************)
C2_AtMostFourMarks == Planned => TotalMarks(req) <= 4

(***************************************************************************)
(* C3.  Every breakpoint's tokens are at least                             *)
(* floor(minimum_tokens_for_model(model) x multiplier(strategy)), with     *)
(* multiplier 2.0, 1.0 and 0.8.                                            *)
(***************************************************************************)
C3_BreakpointsAboveThreshold ==
    Planned =>
        \A i \in 1..Len(metadata.Breakpoints) :
            metadata.Breakpoints[i].Tokens >= DocThreshold(tokenizer, req.Model, strategy)

\* the multiplier decides: a breakpoint below the model minimum under
\* aggressive, and a block above the model minimum left out under conservative
C3_Witness ==
    /\ pc = "planned"
    /\ \/ /\ strategy = "aggressive"
          /\ \E i \in 1..Len(metadata.Breakpoints) :
                metadata.Breakpoints[i].Tokens < GetModelMinimumTokens(tokenizer, req.Model)
       \/ /\ strategy = "conservative"
          /\ Len(metadata.Breakpoints) > 0
          /\ \E i \in DOMAIN req.Messages : \E j \in DOMAIN req.Messages[i].Content :
                /\ CountTokens(tokenizer, req.Messages[i].Content[j].Text)
                     >= GetModelMinimumTokens(tokenizer, req.Model)
                /\ ~HasPosition(metadata.Breakpoints, MessagePosition(i, j))
                /\ Len(metadata.Breakpoints) < DocMaxBreakpoints(strategy)

(***************************************************************************)
(* C4.  The breakpoints of the metadata, and of the X-Autocache-Breakpoints*)
(* header, are in structural order: system, then tools, then message       *)
(* blocks by message index and block index, whatever the candidates' sizes.*)
(***************************************************************************)
C4_StructuralOrder ==
    /\ Planned =>
         \A a, b \in 1..Len(metadata.Breakpoints) :
            a < b => LexLess(Rank(req, metadata.Breakpoints[a].Position),
                             Rank(req, metadata.Breakpoints[b].Position))
    /\ (Planned /\ headers # NoHeaders) =>
         /\ Len(headers.Breakpoints) = Len(metadata.Breakpoints)
         /\ \A i \in 1..Len(headers.Breakpoints) :
              headers.Breakpoints[i] = << metadata.Breakpoints[i].Position,
                                          metadata.Breakpoints[i].Tokens,
                                          metadata.Breakpoints[i].TTL >>

\* system, tools and blocks of two messages reported, a smaller block before
\* a larger one
C4_Witness ==
    /\ pc = "forwarded"
    /\ Len(headers.Breakpoints) = 4
    /\ headers.Breakpoints[1][1] \in {"system", "system_blocks"}
    /\ headers.Breakpoints[2][1] = "tools"
    /\ headers.Breakpoints[3][1] = "message_0_block_0"
    /\ headers.Breakpoints[4][1] = "message_1_block_0"
    /\ headers.Breakpoints[3][2] < headers.Breakpoints[4][2]

(***************************************************************************)
(* C5.  With n candidates collected, exactly the first min(n,              *)
(* max_breakpoints) in collection order are selected, reported and marked, *)
(* and no later candidate is marked or reported; with five candidates      *)
(* under aggressive the first four are marked and the fifth is skipped.    *)
(***************************************************************************)
C5_FirstCandidatesSelectedAndMarked ==
    Planned =>
        LET cands == CollectedCandidates
            k == Min(Len(cands), DocMaxBreakpoints(strategy))
        IN  /\ Positions(metadata.Breakpoints) = [i \in 1..k |-> cands[i].Position]
            /\ \A i \in 1..k :
                   MarkAt(req, cands[i].Position) = CacheControl(cands[i].TTL)
            /\ \A i \in (k + 1)..Len(cands) :
                   MarkAt(req, cands[i].Position) = MarkAt(parsed, cands[i].Position)

(***************************************************************************)
(* C6.  When the selected system candidate is a system string, after       *)
(* planning the request's system is one text block holding the string and  *)
(* carrying the ephemeral mark with the system TTL, and the request        *)
(* serializes system as a single-block array.                              *)
(***************************************************************************)
C6_SystemStringGetsSynthesizedBlock ==
    (Planned /\ HasPosition(metadata.Breakpoints, "system")) =>
        /\ req.SystemBlocks =
             << ContentBlock("text", parsed.System,
                             CacheControl(GetStrategyConfig(strategy).SystemTTL)) >>
        /\ MarshalJSON(req).system.kind = "array"
        /\ Len(MarshalJSON(req).system.blocks) = 1

(***************************************************************************)
(* C7.  Every breakpoint of the metadata corresponds to a cache_control    *)
(* mark present in the body sent upstream, of type ephemeral and with the  *)
(* breakpoint's ttl; X-Autocache-Injected is "true" only when that body    *)
(* carries at least one mark applied by the planner.                       *)
(***************************************************************************)
C7_BreakpointsAreMarksInBody ==
    Sent =>
        LET sent == UnmarshalJSON(upstream)
        IN  /\ \A i \in 1..Len(metadata.Breakpoints) :
                  MarkAt(sent, metadata.Breakpoints[i].Position)
                    = CacheControl(metadata.Breakpoints[i].TTL)
            /\ headers.Injected = "true" =>
                  \E i \in 1..Len(metadata.Breakpoints) :
                      IsMark(MarkAt(sent, metadata.Breakpoints[i].Position))

(***************************************************************************)
(* C8.  The mark of the tools candidate is on the last tool definition,    *)
(* the mark of the system_blocks candidate on the last system block, and   *)
(* the planner marks no other tool or system block.                        *)
(***************************************************************************)
C8_MarksOnLastElement ==
    Planned =>
        /\ \A i \in 1..Len(metadata.Breakpoints) :
              LET bp == metadata.Breakpoints[i]
              IN  /\ bp.Position = "tools" =>
                        req.Tools[Len(req.Tools)].CacheControl = CacheControl(bp.TTL)
                  /\ bp.Position = "system_blocks" =>
                        req.SystemBlocks[Len(req.SystemBlocks)].CacheControl
                          = CacheControl(bp.TTL)
        /\ \A k \in 1..Len(req.Tools) :
              req.Tools[k].CacheControl # parsed.Tools[k].CacheControl =>
                  k = Len(req.Tools) /\ HasPosition(metadata.Breakpoints, "tools")
        /\ \A k \in 1..Len(req.SystemBlocks) :
              req.SystemBlocks[k].CacheControl # parsed.SystemBlocks[k].CacheControl =>
                  /\ k = Len(req.SystemBlocks)
                  /\ HasPosition(metadata.Breakpoints, "system_blocks")

\* two tools and two system blocks, both candidates selected
C8_Witness ==
    /\ pc = "planned"
    /\ Len(req.Tools) = 2
    /\ Len(req.SystemBlocks) = 2
    /\ HasPosition(metadata.Breakpoints, "tools")
    /\ HasPosition(metadata.Breakpoints, "system_blocks")
    /\ req.Tools[2].CacheControl = CacheControl("1h")
    /\ req.SystemBlocks[2].CacheControl = CacheControl("1h")
    /\ req.Tools[1] = parsed.Tools[1]
    /\ req.SystemBlocks[1] = parsed.SystemBlocks[1]

(***************************************************************************)
(* C9.  Planning changes nothing but the cache_control of the elements     *)
(* the selected candidates address: model, texts, tool definitions, the    *)
(* cache_control of every other element and the order and number of        *)
(* messages, blocks and tools are as they were parsed.                     *)
(***************************************************************************)
C9_OnlySelectedElementsChange ==
    /\ pc # "idle" => ClearMarks(req) = ClearMarks(parsed)
    /\ pc \in {"parsed", "collecting"} => req = parsed
    /\ Planned =>
        /\ ClearMarks(req) = ClearMarks(parsed)
        /\ \A k \in 1..Len(req.SystemBlocks) :
              req.SystemBlocks[k] # parsed.SystemBlocks[k] =>
                  /\ k = Len(req.SystemBlocks)
                  /\ HasPosition(metadata.Breakpoints, "system_blocks")
        /\ \A k \in 1..Len(req.Tools) :
              req.Tools[k] # parsed.Tools[k] =>
                  k = Len(req.Tools) /\ HasPosition(metadata.Breakpoints, "tools")
        /\ \A i \in 1..Len(req.Messages) : \A j \in 1..Len(req.Messages[i].Content) :
              req.Messages[i].Content[j] # parsed.Messages[i].Content[j] =>
                  HasPosition(metadata.Breakpoints, MessagePosition(i, j))

\* a message with a marked block next to blocks that stay as they were, one
\* of them carrying a mark of its own
C9_Witness ==
    /\ pc = "planned"
    /\ req # parsed
    /\ \E i \in 1..Len(req.Messages) : \E j, k \in 1..Len(req.Messages[i].Content) :
          /\ HasPosition(metadata.Breakpoints, MessagePosition(i, j))
          /\ req.Messages[i].Content[j].CacheControl
               # parsed.Messages[i].Content[j].CacheControl
          /\ ~HasPosition(metadata.Breakpoints, MessagePosition(i, k))
          /\ IsMark(parsed.Messages[i].Content[k].CacheControl)
          /\ req.Messages[i].Content[k] = parsed.Messages[i].Content[k]

(***************************************************************************)
(* C10.  When planning yields no breakpoint the metadata says injected =   *)
(* false and the request goes upstream as it was parsed, with no           *)
(* cache_control added.                                                    *)
(***************************************************************************)
C10_NoBreakpointsNoChange ==
    (Planned /\ Len(metadata.Breakpoints) = 0) =>
        /\ metadata.CacheInjected = FALSE
        /\ req = parsed
        /\ Sent =>
              /\ headers # NoHeaders => headers.Injected = "false"
              /\ upstream = MarshalJSON(parsed)
              /\ TotalMarks(UnmarshalJSON(upstream)) = TotalMarks(parsed)

\* a haiku request under moderate whose system prompt is below 2048 tokens
C10_Witness ==
    /\ pc = "forwarded"
    /\ strategy = "moderate"
    /\ req.Model = claude_3_haiku_20240307
    /\ req.System # EmptyText
    /\ CountSystemTokens(tokenizer, req.System) < 2048
    /\ Len(metadata.Breakpoints) = 0
    /\ headers.Injected = "false"
    /\ upstream.system = inbound.system

(***************************************************************************)
(* C11.  Any other run of InjectCacheControl on an equal request under the *)
(* same strategy leaves the same marks and returns the same metadata as    *)
(* the run that was made: the same breakpoints with their tokens, write    *)
(* costs and per-read savings, the same token totals and the same ROI,     *)
(* also for a model identifier priced through the fuzzy lookup.            *)
(***************************************************************************)
C11_RunsAgree ==
    Planned =>
        \A lookups \in PricingLookups(tokenizer, strategy, parsed) :
            LET other == InjectCacheControl(tokenizer, strategy, parsed, lookups)
            IN  /\ other.req = req
                /\ other.metadata = metadata

(***************************************************************************)
(* C20.  For a model identifier that matches no entry of the pricing table,*)
(* exactly or fuzzily, GetModelPricing returns the Claude 3.5 Sonnet       *)
(* prices with the unknown-model error, and the plan is priced with them:  *)
(* each breakpoint's write cost and per-read savings and the ROI of the    *)
(* metadata are the ones computed from the Claude 3.5 Sonnet prices.       *)
(***************************************************************************)
C20_UnknownModelPricedAsDefault ==
    LET default == NewPricingCalculator[claude_3_5_sonnet_20241022]
        priced == [pricing |-> default, err |-> FALSE]
    IN  (Planned /\ \A l \in GetModelPricing(req.Model) : l.err) =>
            /\ GetModelPricing(req.Model) = { [pricing |-> default, err |-> TRUE] }
            /\ \A i \in 1..Len(metadata.Breakpoints) :
                  LET bp == metadata.Breakpoints[i]
                  IN  /\ bp.WritePrice =
                           CalculateCacheWriteCost(priced, bp.Tokens, bp.TTL).cost
                      /\ bp.ReadSavings =
                           Sub(CalculateBaseCost(priced, bp.Tokens, 0).cost,
                               CalculateCacheReadCost(priced, bp.Tokens).cost)
            /\ metadata.ROI =
                  CalculateROI([pricing |-> priced,
                                writes |-> [i \in 1..Len(metadata.Breakpoints) |-> priced],
                                read |-> priced],
                               metadata.TotalTokens, metadata.CachedTokens,
                               metadata.Breakpoints).roi

(***************************************************************************)
(* C16.  For every request object x the handler holds, parsed or planned,  *)
(* parsing the serialization of x gives x back: model, max_tokens, system, *)
(* tools, messages and the optional fields are equal, and every            *)
(* cache_control of a system block, tool or content block is there with    *)
(* the same type and ttl.                                                  *)
(***************************************************************************)
C16_RoundTrip ==
    pc # "idle" =>
        LET x == req
            y == UnmarshalJSON(MarshalJSON(x))
        IN  /\ ~UnmarshalError(MarshalJSON(x))
            /\ y = x
            /\ \A pos \in PositionsOf(x) : MarkAt(y, pos) = MarkAt(x, pos)
            /\ TotalMarks(y) = TotalMarks(x)

\* a planned request with system blocks, optional fields set (one of them
\* a pointer to zero) and a mark the planner added
C16_Witness ==
    /\ pc = "planned"
    /\ req.Temperature = Pointer(0)
    /\ req.Stream = Pointer(FALSE)
    /\ req.TopK = Pointer(40)
    /\ Len(req.StopSequences) = 1
    /\ HasPosition(metadata.Breakpoints, "system_blocks")
    /\ MarkAt(UnmarshalJSON(MarshalJSON(req)), "system_blocks") = CacheControl("1h")

(***************************************************************************)
(* C17.  Parsing a present system field fills one representation, never    *)
(* both; serialization writes system as an array when blocks are           *)
(* populated, otherwise as a string, and omits it when empty; a request    *)
(* whose system was a string and got no mark goes out with a string, and   *)
(* one whose system was an array always goes out with an array.            *)
(***************************************************************************)
C17_OneSystemRepresentation ==
    pc # "idle" =>
        /\ ~(parsed.System # EmptyText /\ Len(parsed.SystemBlocks) > 0)
        /\ inbound.system.kind = "string" =>
              parsed.System = inbound.system.str /\ parsed.SystemBlocks = <<>>
        /\ inbound.system.kind = "array" =>
              parsed.SystemBlocks = inbound.system.blocks /\ parsed.System = EmptyText
        /\ MarshalJSON(req).system =
              (IF Len(req.SystemBlocks) > 0 THEN WireArray(req.SystemBlocks)
               ELSE IF req.System # EmptyText THEN WireString(req.System)
               ELSE WireAbsent)
        /\ Sent =>
              /\ (inbound.system.kind = "string" /\ MarksOfBlocks(req.SystemBlocks) = 0) =>
                    upstream.system = (IF inbound.system.str = EmptyText THEN WireAbsent
                                       ELSE WireString(inbound.system.str))
              /\ inbound.system.kind = "array" => upstream.system.kind = "array"

(***************************************************************************)
(* C17, amended.  As C17, except that only a non-empty array goes out as   *)
(* an array: an empty array populates no block and the system field is     *)
(* omitted, as for an empty string.                                        *)
(***************************************************************************)
C17_OneSystemRepresentationNonEmptyArray ==
    pc # "idle" =>
        /\ ~(parsed.System # EmptyText /\ Len(parsed.SystemBlocks) > 0)
        /\ inbound.system.kind = "string" =>
              parsed.System = inbound.system.str /\ parsed.SystemBlocks = <<>>
        /\ inbound.system.kind = "array" =>
              parsed.SystemBlocks = inbound.system.blocks /\ parsed.System = EmptyText
        /\ MarshalJSON(req).system =
              (IF Len(req.SystemBlocks) > 0 THEN WireArray(req.SystemBlocks)
               ELSE IF req.System # EmptyText THEN WireString(req.System)
               ELSE WireAbsent)
        /\ Sent =>
              /\ (inbound.system.kind = "string" /\ MarksOfBlocks(req.SystemBlocks) = 0) =>
                    upstream.system = (IF inbound.system.str = EmptyText THEN WireAbsent
                                       ELSE WireString(inbound.system.str))
              /\ (inbound.system.kind = "array" /\ Len(inbound.system.blocks) > 0) =>
                    /\ upstream.system.kind = "array"
                    /\ Len(upstream.system.blocks) = Len(inbound.system.blocks)
              /\ (inbound.system.kind = "array" /\ Len(inbound.system.blocks) = 0) =>
                    upstream.system = WireAbsent

\* a one-block system array that was marked and went out as an array
C17_Witness ==
    /\ pc = "forwarded"
    /\ inbound.system.kind = "array"
    /\ Len(inbound.system.blocks) = 1
    /\ HasPosition(metadata.Breakpoints, "system_blocks")
    /\ upstream.system.kind = "array"
    /\ Len(upstream.system.blocks) = 1

(***************************************************************************)
(* C18.  A message whose content arrives as a JSON string is parsed into   *)
(* exactly one text block holding that string, and every message of the    *)
(* body sent upstream has its content as an array of blocks, never as a    *)
(* string.                                                                 *)
(***************************************************************************)
C18_StringContentBecomesOneBlock ==
    /\ pc # "idle" =>
          \A i \in 1..Len(inbound.messages) :
              inbound.messages[i].content.kind = "string" =>
                  parsed.Messages[i].Content =
                      << ContentBlock("text", inbound.messages[i].content.str,
                                      NoCacheControl) >>
    /\ Sent =>
          /\ Len(upstream.messages) = Len(req.Messages)
          /\ \A i \in 1..Len(upstream.messages) :
                /\ upstream.messages[i].content.kind = "array"
                /\ upstream.messages[i].content.blocks = req.Messages[i].Content
                /\ Len(upstream.messages[i].content.blocks) > 0

\* "You are helpful." arrived as a string and went upstream as one block
C18_Witness ==
    /\ pc = "forwarded"
    /\ inbound.messages[1].content = WireString(SmallText)
    /\ upstream.messages[1].content = WireArray(<< TextBlock(SmallText) >>)

(***************************************************************************)
(* The most recent min(n, k) of the n records of h, oldest first.          *)
(***************************************************************************)
LastK(h, k) == [i \in 1..Min(Len(h), k) |-> h[Len(h) - Min(Len(h), k) + i]]

\* the goroutines serving (or done with) a request to /v1/messages
MessagesGoroutines == { g \in Goroutines : goroutines[g].path = "/v1/messages" }

(***************************************************************************)
(* C12.  A request to /v1/messages that carries X-Autocache-Bypass: true   *)
(* or X-Autocache-Disable: true is never planned: no metadata is produced  *)
(* for it, and once it is forwarded the body sent upstream is the parsed   *)
(* request serialized as it is, with as many cache marks as the inbound    *)
(* body had, and the response carries X-Autocache-Injected: false.  A      *)
(* request is forwarded unless HandleMessages turned it down (400, 405).   *)
(***************************************************************************)
C12_BypassSkipsPlanner ==
    \A g \in MessagesGoroutines :
        LET s == goroutines[g]
        IN  (s.bypass = "true" \/ s.disable = "true") =>
              /\ ~s.planned
              /\ callers[g] = IdleCaller
              /\ s.metadata = NoMetadata
              /\ s.sent =>
                    /\ s.upstream = MarshalJSON(UnmarshalJSON(s.body))
                    /\ TotalMarks(UnmarshalJSON(s.upstream)) = TotalMarks(UnmarshalJSON(s.body))
                    /\ s.headers.Injected = "false"
                    /\ s.headers.Breakpoints = <<>>
              /\ (s.pc = "done" /\ s.status \notin {400, 405}) => s.sent

\* a bypassed request, which the planner would have marked, was forwarded
\* and answered
C12_Witness ==
    \E g \in MessagesGoroutines :
        LET s == goroutines[g]
        IN  /\ s.disable = "true"
            /\ s.pc = "done"
            /\ s.sent
            /\ s.status = 200
            /\ s.body.system = WireString(HugeText)
            /\ s.headers.Injected = "false"

(***************************************************************************)
(* C19.  A body that is not JSON, lacks model, has max_tokens <= 0, has no *)
(* messages, or has a message whose role is missing or is not user or      *)
(* assistant or whose content is missing or is an empty array, is answered *)
(* with a 4xx status as soon as HandleMessages has looked at it; it is     *)
(* never planned and never forwarded.                                      *)
(***************************************************************************)
InvalidBody(w) ==
    \/ w.malformed
    \/ w.model = <<>>
    \/ w.max_tokens <= 0
    \/ Len(w.messages) = 0
    \/ \E i \in 1..Len(w.messages) :
          \/ w.messages[i].role \notin {"user", "assistant"}
          \/ w.messages[i].content.kind = "absent"
          \/ w.messages[i].content = WireArray(<<>>)

C19_InvalidBodiesRejected ==
    \A g \in MessagesGoroutines :
        LET s == goroutines[g]
        IN  InvalidBody(s.body) =>
              /\ s.pc = "done"
              /\ s.status \in 400..499
              /\ ~s.planned
              /\ callers[g] = IdleCaller
              /\ s.metadata = NoMetadata
              /\ ~s.sent
              /\ s.upstream = EmptyWire

\* a POST whose only fault is max_tokens = 0 was answered
C19_Witness ==
    \E g \in MessagesGoroutines :
        LET s == goroutines[g]
        IN  /\ s.method = "POST"
            /\ s.body.max_tokens = 0
            /\ s.body.model # <<>>
            /\ Len(s.body.messages) > 0
            /\ s.pc = "done"
            /\ s.status = 400

(***************************************************************************)
(* C15.  When the history is enabled, every request that was planned has   *)
(* had its metadata stored in the history by the time the handler returns, *)
(* whatever the upstream call did.                                         *)
(***************************************************************************)
C15_PlannedMetadataRecorded ==
    \A g \in MessagesGoroutines :
        LET s == goroutines[g]
        IN  (s.pc = "done" /\ s.planned /\ historySize > 0) =>
              /\ s.stored
              /\ \E i \in 1..Len(arrivals) : arrivals[i] = RecordOf(s)

(***************************************************************************)
(* C13.  Whenever no storeRequestMetadata call is under way, the history   *)
(* holds the min(n, K) most recent of the n records passed to              *)
(* storeRequestMetadata so far, in the order the recorder took them, K     *)
(* being the history size; with K = 0 it is empty.                         *)
(***************************************************************************)
C13_RingHoldsMostRecent ==
    historyMutex.writer = 0 =>
        /\ requestHistory = LastK(arrivals, historySize)
        /\ Len(requestHistory) = Min(Len(arrivals), historySize)
        /\ historySize = 0 => requestHistory = <<>>

\* three records were stored in a history of two: the oldest was dropped
C13_Witness ==
    /\ historyMutex.writer = 0
    /\ historySize = 2
    /\ Len(arrivals) = 3
    /\ requestHistory = << arrivals[2], arrivals[3] >>
    /\ arrivals[2] # arrivals[3]

\* requests were recorded while the history is disabled
C13_WitnessDisabled ==
    /\ historySize = 0
    /\ Len(arrivals) > 0
    /\ requestHistory = <<>>

(***************************************************************************)
(* C14.  What HandleSavings holds, and what it returns, is the history as  *)
(* it was between two storeRequestMetadata calls: the most recent K of the *)
(* first n records stored, for some n, never the K+1 records between the   *)
(* append and the truncation; and what a reader finds in the copy, going   *)
(* through the Breakpoints slices it shares with the history, does not     *)
(* change while HandleSavings holds it, whatever is stored meanwhile.      *)
(***************************************************************************)
Snapshots == { g \in Goroutines : goroutines[g].path = "/savings"
                                   /\ goroutines[g].pc \in {"snapshot", "done"} }

\* the histories there were between two storeRequestMetadata calls, as a
\* reader finds them
HistoriesBetweenStores ==
    { Dereference(LastK(SubSeq(arrivals, 1, n), historySize), breakpointArrays) :
        n \in 0..Len(arrivals) }

SnapshotCoherent ==
    \A g \in Snapshots :
        /\ Len(goroutines[g].history) <= historySize
        /\ Dereference(goroutines[g].history, breakpointArrays) \in HistoriesBetweenStores
        /\ goroutines[g].pc = "done" =>
              /\ goroutines[g].recent \in HistoriesBetweenStores
              /\ goroutines[g].recent
                    = Dereference(goroutines[g].history, breakpointArrays)

SnapshotKept ==
    \A g \in Snapshots :
        goroutines'[g].path = "/savings" =>
            Dereference(goroutines'[g].history, breakpointArrays')
              = Dereference(goroutines[g].history, breakpointArrays)

C14_SnapshotCoherent == []SnapshotCoherent /\ [][SnapshotKept]_vars

\* HandleSavings holds a copy with a record in it whose Breakpoints array
\* the history shares, and a record was stored after the copy was made
C14_Witness ==
    \E g \in Snapshots :
        /\ goroutines[g].pc = "snapshot"
        /\ Len(goroutines[g].history) > 0
        /\ \E i \in 1..Len(goroutines[g].history) :
              /\ goroutines[g].history[i].Metadata.Breakpoints # 0
              /\ \E j \in 1..Len(requestHistory) :
                    requestHistory[j].Metadata.Breakpoints
                      = goroutines[g].history[i].Metadata.Breakpoints
        /\ historyMutex.writer = 0
        /\ goroutines[g].history # requestHistory
        /\ Len(arrivals) > Len(goroutines[g].history)

\* a /savings request has its status written and waits for the lock that a
\* storeRequestMetadata holds between its append and its truncation
C14_WitnessWaiting ==
    \E g \in Goroutines :
        /\ goroutines[g].pc = "savings"
        /\ goroutines[g].status = StatusOf("OK")
        /\ historyMutex.writer \notin {0, g}
        /\ Len(requestHistory) = historySize + 1

(***************************************************************************)
(* C21.  Whenever the plan has at least one breakpoint, the ROI of the     *)
(* metadata projects more savings at 100 requests than at 10.              *)
(***************************************************************************)
C21_SavingsGrowWithRequests ==
    (Planned /\ Len(metadata.Breakpoints) > 0) =>
        Less(metadata.ROI.SavingsAt10Requests, metadata.ROI.SavingsAt100Requests)

(***************************************************************************)
(* C24.  For the model identifier of the request, GetModelMinimumTokens of *)
(* every implementation of the Tokenizer interface returns 2048 when the   *)
(* identifier contains "haiku" and 1024 when it does not.                  *)
(***************************************************************************)
C24_MinimumTokensByFamily ==
    pc # "idle" =>
        LET expected == IF ContainsHaiku(parsed.Model) THEN 2048 ELSE 1024
        IN  /\ AnthropicTokenizer_GetModelMinimumTokens(parsed.Model) = expected
            /\ AnthropicRealTokenizer_GetModelMinimumTokens(parsed.Model) = expected
            /\ OfflineTokenizer_GetModelMinimumTokens(parsed.Model) = expected
            /\ RealTokenizer_GetModelMinimumTokens(parsed.Model) = expected

(***************************************************************************)
(* C27.  On the request that was parsed, every backend of the planner      *)
(* composes counts by the documented rules: a text block costs the count of *)
(* its text + 2, a message 3 + its blocks, a tool 5 + the counts of its    *)
(* name, its description and its JSON-serialized schema, a system string   *)
(* the count of the text + 2, system blocks 2 + the blocks, and the        *)
(* request 5 + system + tools + messages.                                  *)
(***************************************************************************)
DocBlockTokens(tk, block) ==
    CASE block.Type = "text" -> CountTokens(tk, block.Text) + 2
      [] block.Type = "image" -> 85
      [] OTHER -> 0

DocMessageTokens(tk, message) ==
    3 + SumSeq([i \in 1..Len(message.Content) |-> DocBlockTokens(tk, message.Content[i])])

DocToolTokens(tk, tool) ==
    5 + CountTokens(tk, tool.Name) + CountTokens(tk, tool.Description)
      + (IF tool.InputSchema.nil THEN 0 ELSE CountTokens(tk, tool.InputSchema.js))

DocSystemTokens(tk, r) ==
    IF Len(r.SystemBlocks) > 0
    THEN 2 + SumSeq([i \in 1..Len(r.SystemBlocks) |-> DocBlockTokens(tk, r.SystemBlocks[i])])
    ELSE IF r.System # EmptyText THEN CountTokens(tk, r.System) + 2
    ELSE 0

DocRequestTokens(tk, r) ==
    5 + DocSystemTokens(tk, r)
      + SumSeq([i \in 1..Len(r.Tools) |-> DocToolTokens(tk, r.Tools[i])])
      + SumSeq([i \in 1..Len(r.Messages) |-> DocMessageTokens(tk, r.Messages[i])])

C27_BackendsComposeAlike ==
    pc # "idle" =>
        \A tk \in InjectorBackends :
            /\ \A i \in 1..Len(parsed.Messages) :
                  /\ CountMessageTokens(tk, parsed.Messages[i])
                       = DocMessageTokens(tk, parsed.Messages[i])
                  /\ \A j \in 1..Len(parsed.Messages[i].Content) :
                        CountContentBlockTokens(tk, parsed.Messages[i].Content[j])
                          = DocBlockTokens(tk, parsed.Messages[i].Content[j])
            /\ \A i \in 1..Len(parsed.Tools) :
                  CountToolTokens(tk, parsed.Tools[i]) = DocToolTokens(tk, parsed.Tools[i])
            /\ parsed.System # EmptyText =>
                  CountSystemTokens(tk, parsed.System) = CountTokens(tk, parsed.System) + 2
            /\ Len(parsed.SystemBlocks) > 0 =>
                  CountSystemBlocksTokens(tk, parsed.SystemBlocks) = DocSystemTokens(tk, parsed)
            /\ EstimateRequestTokens(tk, parsed) = DocRequestTokens(tk, parsed)

(***************************************************************************)
(* C25.  Whatever valid value MAX_CACHE_BREAKPOINTS has (Config.Validate   *)
(* accepts 1 to 4), the plan has no more breakpoints and the request no    *)
(* more planner marks than that value.  NewCacheInjectorWithConfig takes   *)
(* the tokenizer mode from the configuration and nothing else, so the plan *)
(* of a request is the same under every value.                             *)
(***************************************************************************)
Validate_MaxCacheBreakpoints(m) == ~(m < 1 \/ m > 4)

ValidMaxCacheBreakpoints == { m \in 0..5 : Validate_MaxCacheBreakpoints(m) }

C25_BreakpointsWithinConfiguredMaximum ==
    Planned =>
        \A maxCacheBreakpoints \in ValidMaxCacheBreakpoints :
            Len(metadata.Breakpoints) <= maxCacheBreakpoints

(***************************************************************************)
(* C26.  The cached tokens of the metadata, the sum of the breakpoints'    *)
(* tokens, are at least 0 and at most the total tokens, the estimate of    *)
(* the whole request, and the cache ratio, cached / total, is in [0, 1].    *)
(***************************************************************************)
C26_CacheRatioWithinUnit ==
    Planned =>
        /\ metadata.CachedTokens
             = SumSeq([i \in 1..Len(metadata.Breakpoints) |-> metadata.Breakpoints[i].Tokens])
        /\ metadata.TotalTokens = EstimateRequestTokens(tokenizer, req)
        /\ metadata.TotalTokens > 0
        /\ 0 <= metadata.CachedTokens
        /\ metadata.CachedTokens <= metadata.TotalTokens
        /\ metadata.CacheRatio
             = Div(FromInt(metadata.CachedTokens), FromInt(metadata.TotalTokens))
        /\ ~Less(metadata.CacheRatio, FloatZero)
        /\ ~Less(FromInt(1), metadata.CacheRatio)

\* a plan with system and content breakpoints that caches part of the request
C26_Witness ==
    /\ Planned
    /\ Len(metadata.Breakpoints) >= 2
    /\ HasPosition(metadata.Breakpoints, "system")
    /\ 0 < metadata.CachedTokens
    /\ metadata.CachedTokens < metadata.TotalTokens

(***************************************************************************)
(* C28.  The breakpoint of a text block of a message has the ttl "1h" when *)
(* the block is longer than 1000 runes and contains one of the phrase      *)
(* markers, and the strategy's content ttl, "5m", when it has 1000 runes   *)
(* or fewer or contains no marker.                                         *)
(***************************************************************************)
C28_ContentTTLUpgrade ==
    Planned =>
        \A i \in 1..Len(parsed.Messages) :
            \A j \in 1..Len(parsed.Messages[i].Content) :
                \A k \in 1..Len(metadata.Breakpoints) :
                    metadata.Breakpoints[k].Position = MessagePosition(i, j) =>
                        LET text == parsed.Messages[i].Content[j].Text
                        IN  metadata.Breakpoints[k].TTL =
                              IF text.runes > 1000 /\ text.marker THEN "1h" ELSE "5m"

(***************************************************************************)
(* C29.  For every request, planned separately under each strategy, the   *)
(* number of breakpoints under conservative is at most the number under    *)
(* moderate, which is at most the number under aggressive.                 *)
(***************************************************************************)
\* the number of breakpoints InjectCacheControl returns for the parsed
\* request under strategy s
BreakpointsUnder(s) ==
    Len(InjectCacheControl(
            tokenizer, s, parsed,
            SameLookups(parsed, CHOOSE l \in GetModelPricing(parsed.Model) : TRUE)
        ).metadata.Breakpoints)

C29_StrategiesOrdered ==
    pc = "parsed" =>
        /\ BreakpointsUnder("conservative") <= BreakpointsUnder("moderate")
        /\ BreakpointsUnder("moderate") <= BreakpointsUnder("aggressive")

\* a request on which the three strategies give three different numbers
C29_Witness ==
    /\ pc = "planned"
    /\ 0 < BreakpointsUnder("conservative")
    /\ BreakpointsUnder("conservative") < BreakpointsUnder("moderate")
    /\ BreakpointsUnder("moderate") < BreakpointsUnder("aggressive")
    /\ Len(metadata.Breakpoints) = BreakpointsUnder(strategy)

(***************************************************************************)
(* C30.  Planning is idempotent: running InjectCacheControl a second time  *)
(* with the same strategy on the request it has already planned leaves the *)
(* set of cache_control marks on the request unchanged and returns the     *)
(* same breakpoints (positions, tokens, ttl) as the first run.             *)
(***************************************************************************)
\* the cache_control marks of a request: where they are and what they say
MarksIn(where, bs) ==
    { << where, i, bs[i].CacheControl >> : i \in { k \in 1..Len(bs) : IsMark(bs[k].CacheControl) } }

MarkSet(r) ==
    MarksIn("system", r.SystemBlocks) \cup MarksIn("tools", r.Tools)
    \cup UNION { MarksIn(MessagePosition(i, 1), r.Messages[i].Content) : i \in 1..Len(r.Messages) }

PositionTokensTTL(bps) ==
    [i \in 1..Len(bps) |-> << bps[i].Position, bps[i].Tokens, bps[i].TTL >>]

C30_PlanningIdempotent ==
    pc = "planned" =>
        \A l \in GetModelPricing(req.Model) :
            LET second == InjectCacheControl(tokenizer, strategy, req, SameLookups(req, l))
            IN  /\ MarkSet(second.req) = MarkSet(req)
                /\ PositionTokensTTL(second.metadata.Breakpoints)
                     = PositionTokensTTL(metadata.Breakpoints)

\* a plan of three breakpoints, one of them upgraded content, whose marks
\* are in the request when the second run starts
C30_Witness ==
    /\ Planned
    /\ Len(metadata.Breakpoints) >= 3
    /\ Cardinality(MarkSet(req)) >= 3
    /\ MarkSet(parsed) = {}
    /\ \E k \in 1..Len(metadata.Breakpoints) :
          metadata.Breakpoints[k].Type = "content" /\ metadata.Breakpoints[k].TTL = "1h"

(***************************************************************************)
(* C22.  When the exact (offline) backend panics inside count_tokens, the  *)
(* panic does not reach the caller: the call returns the heuristic         *)
(* backend's count for that text, the panic counter increases by exactly   *)
(* one for that call, and across any sequence of calls the panic and       *)
(* fallback counters never decrease.                                       *)
(***************************************************************************)
\* the calls whose panic recover() has taken and panicCount does not yet show
PanicsNotYetCounted == Cardinality({ g \in Goroutines : callers[g].pc = "ot_panic_add" })

PanicHandled ==
    /\ \A g \in Goroutines :
          (callers[g].pc = "return" /\ callers[g].backend = "offline") =>
              /\ callers[g].panicAdds = IF callers[g].panicOccurred THEN 1 ELSE 0
              /\ callers[g].panicOccurred =>
                    callers[g].result = AnthropicTokenizer_CountTokens(callers[g].text)
    /\ panicCount + PanicsNotYetCounted = recovered

CountersKept ==
    /\ panicCount' >= panicCount
    /\ fallbackCount' >= fallbackCount

C22_PanicFallsBack == []PanicHandled /\ [][CountersKept]_vars

\* a call that panicked returns while the other goroutine's panic has been
\* counted too, and a call without a panic has used the fallback
C22_Witness ==
    /\ \E g \in Goroutines :
          /\ callers[g].pc = "return"
          /\ callers[g].backend = "offline"
          /\ callers[g].panicOccurred
          /\ callers[g].result > 0
    /\ panicCount = 2
    /\ fallbackCount = 3

(***************************************************************************)
(* C23.  count_tokens is safe for concurrent use on a shared estimator:    *)
(* under every interleaving of concurrent calls the memo cache is never    *)
(* read or written while another call writes it, and each call returns the *)
(* same count that a sequential call on the same text returns.             *)
(***************************************************************************)
\* the memo cache a goroutine is reading or writing at this moment
ReadsCache(g) ==
    CASE callers[g].pc = "at_reading" -> {callers[g].inst}
      [] callers[g].pc = "rt_reading" -> {"real"}
      [] OTHER -> {}

WritesCache(g) ==
    CASE callers[g].pc = "at_writing" -> {callers[g].inst}
      [] callers[g].pc = "rt_writing" -> {"real"}
      [] OTHER -> {}

\* the counts a call made alone, on a fresh estimator, can return
SequentialCounts(backend, text) ==
    IF text = EmptyText THEN {0}
    ELSE CASE backend = "heuristic" -> { AnthropicTokenizer_CountTokens(text) }
           [] backend = "offline" -> { text.ids, AnthropicTokenizer_CountTokens(text) }
           [] backend = "anthropic" -> { AnthropicRealTokenizer_CountTokens(text) }
           [] backend = "real" -> { countTokensViaAPI(text, ok) : ok \in BOOLEAN }

C23_ConcurrentUseSafe ==
    /\ ~crashed
    /\ \A g \in Goroutines : \A h \in Goroutines \ {g} :
          WritesCache(g) \cap (ReadsCache(h) \cup WritesCache(h)) = {}
    /\ \A g \in Goroutines :
          callers[g].pc = "return" =>
              callers[g].result \in SequentialCounts(callers[g].backend, callers[g].text)

====
